---------------------------- MODULE Spec2Model ----------------------------
(***************************************************************************)
(* A model of pyplist: decoding of binary / XML property lists             *)
(* (pyplist.utils.plist_dict_from_path), flattening                        *)
(* (json_normalized_plist_dict), the BLAKE2b content digest                *)
(* (blake2b_hash_iterable) and the file-backed Plist entity                *)
(* (pyplist.core.plist.Plist).                                             *)
(*                                                                         *)
(* Text is a sequence of one-character strings, so that concatenation,     *)
(* prefixes and lexicographic order are computed, not assumed.             *)
(***************************************************************************)
EXTENDS Integers, Sequences, FiniteSets, TLC

VARIABLES
    fs,      \* the file system: path -> absent | directory | file with content
    plists,  \* the Plist objects constructed so far; an object holds only _fp
    ret,     \* the outcome of the call made by the latest step (NoCall if none)
    changed, \* history: the objects whose file was changed after construction
    scan     \* the find_plist_files generator in flight (NoScan if none)

vars == <<fs, plists, ret, changed, scan>>

-----------------------------------------------------------------------------
(* Text                                                                    *)

Digits == <<"0", "1", "2", "3", "4", "5", "6", "7", "8", "9">>

\* Code points of the characters that occur in keys (str comparison in
\* sort_index is by code point).
Code(ch) ==
    CASE ch = "." -> 46
      [] ch = "a" -> 97
      [] ch = "b" -> 98
      [] ch = "c" -> 99
      [] ch = "d" -> 100
      [] ch = "e" -> 101
      [] ch = "x" -> 120
      [] ch = "y" -> 121
      [] ch = "z" -> 122

RECURSIVE NatStr(_)
\* str(n) for n >= 0: decimal digits, no leading zeros.
NatStr(n) ==
    IF n < 10 THEN <<Digits[n + 1]>>
    ELSE NatStr(n \div 10) \o <<Digits[(n % 10) + 1]>>

\* str(n) for a Python int.
IntStr(n) == IF n < 0 THEN <<"-">> \o NatStr(0 - n) ELSE NatStr(n)

RECURSIVE DigitsStr(_)
DigitsStr(ds) ==
    IF ds = <<>> THEN <<>> ELSE <<Digits[Head(ds) + 1]>> \o DigitsStr(Tail(ds))

RECURSIVE StrLess(_, _)
\* Python's s < t on str: lexicographic by code point.
StrLess(s, t) ==
    IF t = <<>> THEN FALSE
    ELSE IF s = <<>> THEN TRUE
    ELSE IF Code(Head(s)) # Code(Head(t)) THEN Code(Head(s)) < Code(Head(t))
    ELSE StrLess(Tail(s), Tail(t))

-----------------------------------------------------------------------------
(* Plist values: the types plistlib.load returns                           *)

PStr(s)     == [t |-> "str", s |-> s]
PInt(n)     == [t |-> "int", n |-> n]
PBool(b)    == [t |-> "bool", b |-> b]
\* a float, written sign, integer part, fraction digits: -10209.4324 is
\* PReal(TRUE, 10209, <<4, 3, 2, 4>>)
PReal(neg, i, f) == [t |-> "real", neg |-> neg, i |-> i, f |-> f]
PData(s)    == [t |-> "data", s |-> s]
PArray(es)  == [t |-> "array", es |-> es]
\* a dict keeps insertion order: a sequence of items [k, v] with distinct keys
PDict(its)  == [t |-> "dict", items |-> its]
Item(k, v)  == [k |-> k, v |-> v]

IsDict(v) == v.t = "dict"

\* float(n) for an int n (exact for the small values of the model)
IntToReal(n) == PReal(n < 0, IF n < 0 THEN 0 - n ELSE n, <<0>>)

RECURSIVE PyRepr(_)
RECURSIVE ReprJoin(_)
\* ", ".join(repr(e) for e in es)
ReprJoin(es) ==
    IF es = <<>> THEN <<>>
    ELSE IF Len(es) = 1 THEN PyRepr(es[1])
    ELSE PyRepr(es[1]) \o <<",", " ">> \o ReprJoin(Tail(es))

RECURSIVE ReprItems(_)
\* ", ".join(repr(k) + ": " + repr(v) for k, v in d.items())
ReprItems(its) ==
    IF its = <<>> THEN <<>>
    ELSE LET one == <<"'">> \o its[1].k \o <<"'", ":", " ">> \o PyRepr(its[1].v)
         IN  IF Len(its) = 1 THEN one
             ELSE one \o <<",", " ">> \o ReprItems(Tail(its))

\* repr(v) of a value (what str() of a list shows for its elements)
PyRepr(v) ==
    CASE v.t = "str"   -> <<"'">> \o v.s \o <<"'">>
      [] v.t = "int"   -> IntStr(v.n)
      [] v.t = "bool"  -> IF v.b THEN <<"T", "r", "u", "e">>
                                 ELSE <<"F", "a", "l", "s", "e">>
      [] v.t = "real"  -> (IF v.neg THEN <<"-">> ELSE <<>>)
                              \o NatStr(v.i) \o <<".">> \o DigitsStr(v.f)
      [] v.t = "data"  -> <<"b", "'">> \o v.s \o <<"'">>
      [] v.t = "array" -> <<"[">> \o ReprJoin(v.es) \o <<"]">>
      [] v.t = "dict"  -> <<"{">> \o ReprItems(v.items) \o <<"}">>

\* str(v): a str is itself, every other type shows as its repr
PyStr(v) == IF v.t = "str" THEN v.s ELSE PyRepr(v)

-----------------------------------------------------------------------------
(* Python dicts (insertion ordered)                                        *)

RECURSIVE HasKey(_, _)
HasKey(its, k) ==
    IF its = <<>> THEN FALSE
    ELSE IF its[1].k = k THEN TRUE ELSE HasKey(Tail(its), k)

Keys(its) == [i \in 1..Len(its) |-> its[i].k]

\* d[k] = v: an existing key keeps its position, a new key goes last
DictSet(its, k, v) ==
    IF HasKey(its, k)
    THEN [i \in 1..Len(its) |-> IF its[i].k = k THEN Item(k, v) ELSE its[i]]
    ELSE Append(its, Item(k, v))

RECURSIVE DictUpdate(_, _)
\* {**a, **b}
DictUpdate(a, b) ==
    IF b = <<>> THEN a
    ELSE DictUpdate(DictSet(a, b[1].k, b[1].v), Tail(b))

\* str.removeprefix
RemovePrefix(s, p) ==
    IF Len(s) >= Len(p) /\ SubSeq(s, 1, Len(p)) = p
    THEN SubSeq(s, Len(p) + 1, Len(s)) ELSE s

-----------------------------------------------------------------------------
(* json_normalized_plist_dict: pd.json_normalize(d).T ... ['value'].to_dict() *)

Sep == <<".">>

RECURSIVE NormaliseJson(_, _, _)
RECURSIVE NormaliseItems(_, _, _)
\* the loop of pandas' _normalise_json over data.items(), in insertion order
NormaliseItems(its, key_string, normalized_dict) ==
    IF its = <<>> THEN normalized_dict
    ELSE LET joined  == key_string \o Sep \o its[1].k
             new_key == IF key_string = <<>> THEN RemovePrefix(joined, Sep)
                        ELSE joined
         IN  NormaliseItems(Tail(its), key_string,
                            NormaliseJson(its[1].v, new_key, normalized_dict))

\* pandas' _normalise_json: descend through dicts only; anything else
\* (scalars, bytes, lists) is assigned under the dot-joined key
NormaliseJson(data, key_string, normalized_dict) ==
    IF IsDict(data) THEN NormaliseItems(data.items, key_string, normalized_dict)
    ELSE DictSet(normalized_dict, key_string, data)

\* pandas' _normalise_json_ordered: top-level non-dict items first, then the
\* flattened dict-valued items
NormaliseJsonOrdered(its) ==
    LET top_dict    == SelectSeq(its, LAMBDA it : ~IsDict(it.v))
        nested_dict == NormaliseJson(PDict(SelectSeq(its, LAMBDA it : IsDict(it.v))),
                                     <<>>, <<>>)
    IN  DictUpdate(top_dict, nested_dict)

\* The dtype of a column built from values of several dtypes (DataFrame.T of
\* the one-row frame, and pd.Series(dict)): int64 with float64 gives float64,
\* every other mixture is object and keeps the Python values.
CommonDtype(its) ==
    IF /\ \A i \in 1..Len(its) : its[i].v.t \in {"int", "real"}
       /\ \E i \in 1..Len(its) : its[i].v.t = "real"
    THEN [i \in 1..Len(its) |->
            IF its[i].v.t = "int" THEN Item(its[i].k, IntToReal(its[i].v.n))
            ELSE its[i]]
    ELSE its

\* json_normalized_plist_dict(plist_dict): the flat dict, in column order
json_normalized_plist_dict(plist_dict) ==
    CommonDtype(NormaliseJsonOrdered(plist_dict.items))

-----------------------------------------------------------------------------
(* The sorted, stringified series and the digest                           *)

RECURSIVE InsertSorted(_, _)
InsertSorted(sorted, it) ==
    IF sorted = <<>> THEN <<it>>
    ELSE IF StrLess(it.k, sorted[1].k) THEN <<it>> \o sorted
    ELSE <<sorted[1]>> \o InsertSorted(Tail(sorted), it)

RECURSIVE SortIndex(_)
\* Series.sort_index(): ascending by label
SortIndex(its) ==
    IF its = <<>> THEN <<>>
    ELSE InsertSorted(SortIndex(Tail(its)), its[1])

\* Series.transform(str): every value becomes the Python str of its text
TransformStr(its) ==
    [i \in 1..Len(its) |-> Item(its[i].k, PStr(PyStr(its[i].v)))]

\* pd.Series(self.properties).sort_index().transform(str)
StrSeries(properties) == TransformStr(SortIndex(CommonDtype(properties)))

\* to_bytes of blake2b_hash_iterable: bytes verbatim, else str(val).encode
\* (the model's text is ASCII, so the UTF-8 bytes are the characters)
to_bytes(val) == IF val.t = "data" THEN val.s ELSE PyStr(val)

RECURSIVE Mut_HasherUpdates_Separator(_)
\* a hasher fed a separator after every value
Mut_HasherUpdates_Separator(bytes_iterable) ==
    IF bytes_iterable = <<>> THEN <<>>
    ELSE bytes_iterable[1] \o <<",">>
             \o Mut_HasherUpdates_Separator(Tail(bytes_iterable))

RECURSIVE HasherUpdates(_)
\* the bytes a hasher has absorbed after update(v) for each v in turn
HasherUpdates(bytes_iterable) ==
    IF bytes_iterable = <<>> THEN <<>>
    ELSE bytes_iterable[1] \o HasherUpdates(Tail(bytes_iterable))

\* blake2b_hash_iterable(iterable): BLAKE2b is taken to be collision free, so
\* a digest is identified by the byte string absorbed
blake2b_hash_iterable(iterable) ==
    [blake2b |-> HasherUpdates([i \in 1..Len(iterable) |-> to_bytes(iterable[i])])]

\* the values of a series, in order
SeriesValues(its) == [i \in 1..Len(its) |-> its[i].v]

\* a hash that takes the values in the dict's order, without sort_index()
Mut_HashOfProperties_Unsorted(properties) ==
    [pyhash |-> blake2b_hash_iterable(
                    SeriesValues(TransformStr(CommonDtype(properties))))]

\* Plist.__hash__ on the properties read: hash() of the hex digest (hash() of a
\* str is taken to be collision free as well)
HashOfProperties(properties) ==
    [pyhash |-> blake2b_hash_iterable(SeriesValues(StrSeries(properties)))]

\* an equality that compares the values and not the labels
Mut_EqOfProperties_ValuesOnly(this, other) ==
    SeriesValues(StrSeries(this)) = SeriesValues(StrSeries(other))

\* an equality that compares the digests
Mut_EqOfProperties_Digests(this, other) ==
    blake2b_hash_iterable(SeriesValues(StrSeries(this)))
        = blake2b_hash_iterable(SeriesValues(StrSeries(other)))

\* Series.equals of the two sorted, stringified series: same labels and same
\* values, position by position
EqOfProperties(this, other) == StrSeries(this) = StrSeries(other)

-----------------------------------------------------------------------------
(* Outcomes of calls                                                       *)

Ok(v)    == [st |-> "ok", val |-> v]
Raise(e) == [st |-> "raise", exc |-> e]
NoCall   == [op |-> "none"]

-----------------------------------------------------------------------------
(* The plists the files of the model may hold                              *)

\* {'a': 'one', 'b': 2, 'c': {'d': {'e': False}}}
ExamplePlist ==
    PDict(<<Item(<<"a">>, PStr(<<"o", "n", "e">>)),
            Item(<<"b">>, PInt(2)),
            Item(<<"c">>, PDict(<<Item(<<"d">>,
                                  PDict(<<Item(<<"e">>, PBool(FALSE))>>))>>))>>)

\* the same entries, inserted in the opposite order at the top level
ExamplePlistReordered ==
    PDict(<<Item(<<"c">>, PDict(<<Item(<<"d">>,
                                  PDict(<<Item(<<"e">>, PBool(FALSE))>>))>>)),
            Item(<<"b">>, PInt(2)),
            Item(<<"a">>, PStr(<<"o", "n", "e">>))>>)

\* {'x': {'y': True}, 'z': -10209.4324}
OtherPlist ==
    PDict(<<Item(<<"x">>, PDict(<<Item(<<"y">>, PBool(TRUE))>>)),
            Item(<<"z">>, PReal(TRUE, 10209, <<4, 3, 2, 4>>))>>)

EmptyPlist == PDict(<<>>)

\* {'a': {}, 'b': [{'c': 1}, 's']}: an empty dict, and an array holding a dict
ArrayPlist ==
    PDict(<<Item(<<"a">>, PDict(<<>>)),
            Item(<<"b">>, PArray(<<PDict(<<Item(<<"c">>, PInt(1))>>),
                                   PStr(<<"s">>)>>))>>)

\* {'c': {'a': 'one', 'b': {'e': False, 'd': 2}}} and the same entries with
\* the insertion order reversed at the second and third levels
NestedPlist ==
    PDict(<<Item(<<"c">>,
                 PDict(<<Item(<<"a">>, PStr(<<"o", "n", "e">>)),
                         Item(<<"b">>, PDict(<<Item(<<"e">>, PBool(FALSE)),
                                               Item(<<"d">>, PInt(2))>>))>>))>>)

NestedPlistReordered ==
    PDict(<<Item(<<"c">>,
                 PDict(<<Item(<<"b">>, PDict(<<Item(<<"d">>, PInt(2)),
                                               Item(<<"e">>, PBool(FALSE))>>)),
                         Item(<<"a">>, PStr(<<"o", "n", "e">>))>>))>>)

\* {'c': {'d.e': [1], 'd': {'e': 2}}}: a key with a literal dot beside a
\* nested dict, and the same entries in the other order
DottedPlist ==
    PDict(<<Item(<<"c">>,
                 PDict(<<Item(<<"d", ".", "e">>, PArray(<<PInt(1)>>)),
                         Item(<<"d">>, PDict(<<Item(<<"e">>, PInt(2))>>))>>))>>)

DottedPlistReordered ==
    PDict(<<Item(<<"c">>,
                 PDict(<<Item(<<"d">>, PDict(<<Item(<<"e">>, PInt(2))>>)),
                         Item(<<"d", ".", "e">>, PArray(<<PInt(1)>>))>>))>>)

\* {'a': 'ab', 'b': 'c'}, {'a': 'a', 'b': 'bc'}, {'x': 'ab', 'y': 'c'}
ConcatPlistA ==
    PDict(<<Item(<<"a">>, PStr(<<"a", "b">>)), Item(<<"b">>, PStr(<<"c">>))>>)

ConcatPlistB ==
    PDict(<<Item(<<"a">>, PStr(<<"a">>)), Item(<<"b">>, PStr(<<"b", "c">>))>>)

RenamedPlist ==
    PDict(<<Item(<<"x">>, PStr(<<"a", "b">>)), Item(<<"y">>, PStr(<<"c">>))>>)

\* {'a': b'ab', 'b': 'c'}
DataPlist ==
    PDict(<<Item(<<"a">>, PData(<<"a", "b">>)), Item(<<"b">>, PStr(<<"c">>))>>)

\* {'a': 2, 'b': 2.5}
NumericPlist ==
    PDict(<<Item(<<"a">>, PInt(2)), Item(<<"b">>, PReal(FALSE, 2, <<5>>))>>)

PlistDicts ==
    {ExamplePlist, ExamplePlistReordered, OtherPlist, EmptyPlist, ArrayPlist,
     NestedPlist, NestedPlistReordered, DottedPlist, DottedPlistReordered,
     ConcatPlistA, ConcatPlistB, RenamedPlist, DataPlist, NumericPlist}

\* File contents.  A well-formed plist is its format and its root value; the
\* root need not be a dict (plistlib.dump of a str or of bytes).  The other
\* contents are bytes that are no plist: "garbage" is neither a binary plist
\* nor well-formed XML, "xmlbad" is well-formed XML that is no plist (for
\* instance <integer>x</integer>).
XmlContents    == {[fmt |-> "xml", root |-> r] : r \in PlistDicts \cup {PStr(<<"s">>)}}
BinaryContents == {[fmt |-> "binary", root |-> r] :
                     r \in {ExamplePlist, OtherPlist, EmptyPlist, PData(<<"x">>)}}
Garbage        == [fmt |-> "garbage"]
XmlBad         == [fmt |-> "xmlbad"]
Contents       == XmlContents \cup BinaryContents \cup {Garbage, XmlBad}

-----------------------------------------------------------------------------
(* The file system                                                         *)

Paths == {"f1", "f2"}

Absent  == [kind |-> "absent"]
Dir     == [kind |-> "dir"]
File(c) == [kind |-> "file", content |-> c]

\* open(path, 'rb')
PyOpen(f) ==
    CASE f.kind = "absent" -> Raise("FileNotFoundError")
      [] f.kind = "dir"    -> Raise("IsADirectoryError")
      [] f.kind = "file"   -> Ok(f.content)

\* plistlib.load(fp, fmt=FMT_BINARY): the binary parser turns every parse
\* failure into InvalidFileException
LoadBinary(c) ==
    IF c.fmt = "binary" THEN Ok(c.root) ELSE Raise("InvalidFileException")

\* plistlib.load(fp, fmt=FMT_XML): expat rejects what is not well-formed XML;
\* the plist handlers raise ValueError on well-formed XML that is no plist
LoadXml(c) ==
    CASE c.fmt = "xml"    -> Ok(c.root)
      [] c.fmt = "xmlbad" -> Raise("ValueError")
      [] OTHER            -> Raise("ExpatError")

-----------------------------------------------------------------------------
(* pyplist.utils.plist_dict_from_path                                      *)

\* What a caller may pass: a path (str or pathlib.Path), or a value of
\* another type
PathInput(p) == [t |-> "path", p |-> p]
NonPath(k)   == [t |-> k, p |-> "-"]
NonPathKinds ==
    {"None", "bool", "int", "list", "tuple", "set", "bytes", "dict", "stream"}
Inputs == {PathInput(p) : p \in Paths} \cup {NonPath(k) : k \in NonPathKinds}

\* Path(plist_path): TypeError for what is neither str nor os.PathLike
PathOf(x) == IF x.t = "path" THEN Ok(x.p) ELSE Raise("TypeError")

\* the first try block: open, load as binary, a root that is no dict is
\* made an InvalidFileException
BinaryAttempt(f) ==
    LET o == PyOpen(f)
    IN  IF o.st = "raise" THEN o
        ELSE LET r == LoadBinary(o.val)
             IN  IF r.st = "raise" THEN r
                 ELSE IF ~IsDict(r.val) THEN Raise("InvalidFileException")
                 ELSE Ok([plist |-> r.val, file_type |-> "binary"])

\* the handler of the first try block: open again, load as XML; ExpatError
\* and InvalidFileException (also the one raised for a root that is no dict)
\* become InvalidFileException, anything else propagates
XmlAttempt(f) ==
    LET o == PyOpen(f)
    IN  IF o.st = "raise" THEN o
        ELSE LET r == LoadXml(o.val)
             IN  IF r.st = "raise"
                 THEN IF r.exc \in {"ExpatError", "InvalidFileException"}
                      THEN Raise("InvalidFileException") ELSE r
                 ELSE IF ~IsDict(r.val) THEN Raise("InvalidFileException")
                 ELSE Ok([plist |-> r.val, file_type |-> "xml"])

\* a decoder that gives up after the binary attempt
Mut_DecodeAttempts_NoFallback(first, second) == BinaryAttempt(first)

\* the two attempts; first and second are the file as the two open() calls
\* find it
DecodeAttempts(first, second) ==
    LET b == BinaryAttempt(first)
    IN  IF b.st = "raise" /\ b.exc \in {"ExpatError", "InvalidFileException"}
        THEN XmlAttempt(second)
        ELSE b

\* a decoder that lets the TypeError of Path() escape
Mut_plist_dict_from_path_TypeError(fsys, plist_path) ==
    IF PathOf(plist_path).st = "raise" THEN PathOf(plist_path)
    ELSE DecodeAttempts(fsys[plist_path.p], fsys[plist_path.p])

plist_dict_from_path(fsys, plist_path) ==
    IF PathOf(plist_path).st = "raise" THEN Raise("InvalidFileException")
    ELSE DecodeAttempts(fsys[plist_path.p], fsys[plist_path.p])

-----------------------------------------------------------------------------
(* pyplist.core.plist.Plist                                                *)

MaxPlists == 2

Classes == {"Plist", "ProgramPlist"}

\* Plist.__init__ (ProgramPlist.__init__ only calls it): the outcome, and on
\* success the _fp the new object stores
Plist_init(fsys, plist_input) ==
    LET d == plist_dict_from_path(fsys, plist_input)
    IN  IF d.st = "raise"
        THEN IF d.exc \in {"TypeError", "FileNotFoundError", "InvalidFileException"}
             THEN Raise("InvalidFileException") ELSE d
        ELSE Ok([fp |-> plist_input.p])

\* a properties that answers from a decode made earlier
Mut_Plist_properties_Stale(fsys, self) ==
    LET d == plist_dict_from_path(fsys, PathInput(self.fp))
    IN  IF d.st = "raise" THEN d
        ELSE Ok([properties |-> json_normalized_plist_dict(ExamplePlist)])

\* a properties that reports a missing file as the constructor does
Mut_Plist_properties_InvalidFile(fsys, self) ==
    LET d == plist_dict_from_path(fsys, PathInput(self.fp))
    IN  IF d.st = "raise" THEN Raise("InvalidFileException")
        ELSE Ok([properties |-> json_normalized_plist_dict(d.val.plist)])

\* Plist.properties
Plist_properties(fsys, self) ==
    LET d == plist_dict_from_path(fsys, PathInput(self.fp))
    IN  IF d.st = "raise" THEN d
        ELSE Ok([properties |-> json_normalized_plist_dict(d.val.plist)])

\* Plist.__hash__ (and the hash property that wraps it)
Plist_hash(fsys, self) ==
    LET props == Plist_properties(fsys, self)
    IN  IF props.st = "raise" THEN props
        ELSE Ok(HashOfProperties(props.val.properties))

\* Plist.__eq__: the properties of self are read first, then those of other
Plist_eq(fsys, self, other_plist) ==
    LET this == Plist_properties(fsys, self)
        that == Plist_properties(fsys, other_plist)
    IN  IF this.st = "raise" THEN this
        ELSE IF that.st = "raise" THEN that
        ELSE Ok([eq |-> EqOfProperties(this.val.properties, that.val.properties)])

\* Plist.file_type
Plist_file_type(fsys, self) ==
    LET d == plist_dict_from_path(fsys, PathInput(self.fp))
    IN  IF d.st = "raise" THEN d ELSE Ok([file_type |-> d.val.file_type])

\* Plist.keys: tuple(self.properties.keys())
Plist_keys(fsys, self) ==
    LET props == Plist_properties(fsys, self)
    IN  IF props.st = "raise" THEN props
        ELSE Ok([keys |-> Keys(props.val.properties)])

\* Plist.values: tuple(self.properties.values())
Plist_values(fsys, self) ==
    LET props == Plist_properties(fsys, self)
    IN  IF props.st = "raise" THEN props
        ELSE Ok([values |-> SeriesValues(props.val.properties)])

\* a stat() that succeeds where nothing is
Mut_OsStat_NoError(fsys, p) ==
    Ok([field \in {"st_mode", "st_size", "st_ctime", "st_mtime", "st_atime",
                   "st_uid", "st_gid"} |->
            [stat |-> field, of |-> p, kind |-> fsys[p].kind]])

\* os.stat(path): FileNotFoundError where nothing is; otherwise the fields the
\* operating system keeps for what is at the path (file or directory), each
\* an opaque value of that path
OsStat(fsys, p) ==
    IF fsys[p].kind = "absent" THEN Raise("FileNotFoundError")
    ELSE Ok([field \in {"st_mode", "st_size", "st_ctime", "st_mtime", "st_atime",
                        "st_uid", "st_gid"} |->
                 [stat |-> field, of |-> p, kind |-> fsys[p].kind]])

\* Plist.file_exists: Path.exists() is a stat() whose FileNotFoundError
\* becomes False
Plist_file_exists(fsys, self) ==
    Ok([file_exists |-> OsStat(fsys, self.fp).st = "ok"])

\* Plist.file_mode: stat.filemode(os.stat(self.file_path).st_mode)
Plist_file_mode(fsys, self) ==
    LET s == OsStat(fsys, self.fp)
    IN  IF s.st = "raise" THEN s ELSE Ok([file_mode |-> s.val.st_mode])

\* Plist.file_size: os.path.getsize(self.file_path)
Plist_file_size(fsys, self) ==
    LET s == OsStat(fsys, self.fp)
    IN  IF s.st = "raise" THEN s ELSE Ok([file_size |-> s.val.st_size])

\* Plist.file_created: os.path.getctime(self.file_path) as a datetime
Plist_file_created(fsys, self) ==
    LET s == OsStat(fsys, self.fp)
    IN  IF s.st = "raise" THEN s ELSE Ok([file_created |-> s.val.st_ctime])

\* Plist.file_updated: os.path.getmtime(self.file_path) as a datetime
Plist_file_updated(fsys, self) ==
    LET s == OsStat(fsys, self.fp)
    IN  IF s.st = "raise" THEN s ELSE Ok([file_updated |-> s.val.st_mtime])

\* Plist.file_accessed: os.path.getatime(self.file_path) as a datetime
Plist_file_accessed(fsys, self) ==
    LET s == OsStat(fsys, self.fp)
    IN  IF s.st = "raise" THEN s ELSE Ok([file_accessed |-> s.val.st_atime])

\* Plist.file_owner: self.file_path.owner(), the user of stat().st_uid
Plist_file_owner(fsys, self) ==
    LET s == OsStat(fsys, self.fp)
    IN  IF s.st = "raise" THEN s ELSE Ok([file_owner |-> s.val.st_uid])

\* Plist.file_group: self.file_path.group(), the group of stat().st_gid
Plist_file_group(fsys, self) ==
    LET s == OsStat(fsys, self.fp)
    IN  IF s.st = "raise" THEN s ELSE Ok([file_group |-> s.val.st_gid])

-----------------------------------------------------------------------------
(* The state machine                                                       *)

NoScan ==
    [mode |-> "none", target |-> <<>>, status |-> "none", exc |-> "none",
     pending |-> {}, dirs |-> {}, listed |-> {}, considered |-> <<>>,
     yielded |-> {}]

Init ==
    /\ fs = [p \in Paths |-> Absent]
    /\ plists = {}
    /\ ret = NoCall
    /\ changed = {}
    /\ scan = NoScan

Idle == ret = NoCall

\* a caller decodes a path (or what it takes for one)
CallPlistDictFromPath(x) ==
    /\ Idle
    /\ ret' = [op |-> "plist_dict_from_path", args |-> <<x>>,
               out |-> plist_dict_from_path(fs, x)]
    /\ UNCHANGED <<fs, plists, changed, scan>>

\* Plist(x) or ProgramPlist(x)
NewPlist(cls, x) ==
    LET out == Plist_init(fs, x)
        new == IF out.st = "ok" THEN {[cls |-> cls, fp |-> out.val.fp]} ELSE {}
    IN  /\ Idle
        /\ Cardinality(plists \cup new) <= MaxPlists
        /\ plists' = plists \cup new
        /\ ret' = [op |-> "__init__", args |-> <<cls, x>>, out |-> out]
        /\ UNCHANGED <<fs, changed, scan>>

\* a properties read that opens the file for writing
Mut_ReadProperties_Truncates(self) ==
    /\ Idle
    /\ ret' = [op |-> "properties", args |-> <<self>>,
               out |-> Plist_properties(fs, self)]
    /\ fs' = [fs EXCEPT ![self.fp] = File(Garbage)]
    /\ UNCHANGED <<plists, changed, scan>>

ReadProperties(self) ==
    /\ Idle
    /\ ret' = [op |-> "properties", args |-> <<self>>,
               out |-> Plist_properties(fs, self)]
    /\ UNCHANGED <<fs, plists, changed, scan>>

ReadHash(self) ==
    /\ Idle
    /\ ret' = [op |-> "hash", args |-> <<self>>, out |-> Plist_hash(fs, self)]
    /\ UNCHANGED <<fs, plists, changed, scan>>

ReadFileType(self) ==
    /\ Idle
    /\ ret' = [op |-> "file_type", args |-> <<self>>,
               out |-> Plist_file_type(fs, self)]
    /\ UNCHANGED <<fs, plists, changed, scan>>

ReadKeys(self) ==
    /\ Idle
    /\ ret' = [op |-> "keys", args |-> <<self>>, out |-> Plist_keys(fs, self)]
    /\ UNCHANGED <<fs, plists, changed, scan>>

ReadValues(self) ==
    /\ Idle
    /\ ret' = [op |-> "values", args |-> <<self>>,
               out |-> Plist_values(fs, self)]
    /\ UNCHANGED <<fs, plists, changed, scan>>

ReadFileExists(self) ==
    /\ Idle
    /\ ret' = [op |-> "file_exists", args |-> <<self>>,
               out |-> Plist_file_exists(fs, self)]
    /\ UNCHANGED <<fs, plists, changed, scan>>

ReadFileMode(self) ==
    /\ Idle
    /\ ret' = [op |-> "file_mode", args |-> <<self>>,
               out |-> Plist_file_mode(fs, self)]
    /\ UNCHANGED <<fs, plists, changed, scan>>

ReadFileSize(self) ==
    /\ Idle
    /\ ret' = [op |-> "file_size", args |-> <<self>>,
               out |-> Plist_file_size(fs, self)]
    /\ UNCHANGED <<fs, plists, changed, scan>>

ReadFileCreated(self) ==
    /\ Idle
    /\ ret' = [op |-> "file_created", args |-> <<self>>,
               out |-> Plist_file_created(fs, self)]
    /\ UNCHANGED <<fs, plists, changed, scan>>

ReadFileUpdated(self) ==
    /\ Idle
    /\ ret' = [op |-> "file_updated", args |-> <<self>>,
               out |-> Plist_file_updated(fs, self)]
    /\ UNCHANGED <<fs, plists, changed, scan>>

ReadFileAccessed(self) ==
    /\ Idle
    /\ ret' = [op |-> "file_accessed", args |-> <<self>>,
               out |-> Plist_file_accessed(fs, self)]
    /\ UNCHANGED <<fs, plists, changed, scan>>

ReadFileOwner(self) ==
    /\ Idle
    /\ ret' = [op |-> "file_owner", args |-> <<self>>,
               out |-> Plist_file_owner(fs, self)]
    /\ UNCHANGED <<fs, plists, changed, scan>>

ReadFileGroup(self) ==
    /\ Idle
    /\ ret' = [op |-> "file_group", args |-> <<self>>,
               out |-> Plist_file_group(fs, self)]
    /\ UNCHANGED <<fs, plists, changed, scan>>

CallEq(self, other) ==
    /\ Idle
    /\ ret' = [op |-> "__eq__", args |-> <<self, other>>,
               out |-> Plist_eq(fs, self, other)]
    /\ UNCHANGED <<fs, plists, changed, scan>>

\* the caller has the outcome; the next call can be made
Return ==
    /\ ~Idle
    /\ ret' = NoCall
    /\ UNCHANGED <<fs, plists, changed, scan>>

\* the objects on path p, whose file a step of the environment changes
Touched(p) == IF fs'[p] # fs[p] THEN {e \in plists : e.fp = p} ELSE {}

\* The environment, between calls: a file is written (created or replaced),
\* removed, or a directory is made where nothing is
EnvWrite(p, c) ==
    /\ Idle
    /\ fs[p].kind # "dir"
    /\ fs' = [fs EXCEPT ![p] = File(c)]
    /\ changed' = changed \cup Touched(p)
    /\ UNCHANGED <<plists, ret, scan>>

EnvRemove(p) ==
    /\ Idle
    /\ fs[p].kind # "absent"
    /\ fs' = [fs EXCEPT ![p] = Absent]
    /\ changed' = changed \cup Touched(p)
    /\ UNCHANGED <<plists, ret, scan>>

EnvMkdir(p) ==
    /\ Idle
    /\ fs[p].kind = "absent"
    /\ fs' = [fs EXCEPT ![p] = Dir]
    /\ changed' = changed \cup Touched(p)
    /\ UNCHANGED <<plists, ret, scan>>

Next ==
    \/ \E x \in Inputs : CallPlistDictFromPath(x)
    \/ \E cls \in Classes, x \in Inputs : NewPlist(cls, x)
    \/ \E self \in plists : ReadProperties(self)
    \/ \E self \in plists : ReadHash(self)
    \/ \E self \in plists : ReadFileType(self)
    \/ \E self \in plists : ReadKeys(self)
    \/ \E self \in plists : ReadValues(self)
    \/ \E self \in plists : ReadFileExists(self)
    \/ \E self \in plists : ReadFileMode(self)
    \/ \E self \in plists : ReadFileSize(self)
    \/ \E self \in plists : ReadFileCreated(self)
    \/ \E self \in plists : ReadFileUpdated(self)
    \/ \E self \in plists : ReadFileAccessed(self)
    \/ \E self \in plists : ReadFileOwner(self)
    \/ \E self \in plists : ReadFileGroup(self)
    \/ \E self \in plists, other \in plists : CallEq(self, other)
    \/ Return
    \/ \E p \in Paths, c \in Contents : EnvWrite(p, c)
    \/ \E p \in Paths : EnvRemove(p)
    \/ \E p \in Paths : EnvMkdir(p)

Spec == Init /\ [][Next]_vars

-----------------------------------------------------------------------------
(* A directory tree, and pyplist.core.find.find_plist_files over it         *)

\* In the tree a path is the sequence of its names and a name is text:
\* d, d/a.plist, d/b.txt, d/sub, d/sub/c.plist
PlistExt == <<".", "p", "l", "i", "s", "t">>

TargetDir == <<(<<"d">>)>>
SubDir    == TargetDir \o <<(<<"s", "u", "b">>)>>
PathA     == TargetDir \o <<(<<"a">> \o PlistExt)>>
PathB     == TargetDir \o <<(<<"b", ".", "t", "x", "t">>)>>
PathC     == SubDir \o <<(<<"c">> \o PlistExt)>>

TreePaths == {TargetDir, SubDir, PathA, PathB, PathC}

Parent(path)   == SubSeq(path, 1, Len(path) - 1)
BaseName(path) == path[Len(path)]

\* str.endswith
EndsWith(s, suffix) ==
    /\ Len(s) >= Len(suffix)
    /\ SubSeq(s, Len(s) - Len(suffix) + 1, Len(s)) = suffix

\* what the environment may put at each path of the tree: a.plist may be a
\* valid plist, well-formed XML that is no plist, or a directory of that
\* name; b.txt is a valid plist under another extension; c.plist may be a
\* valid plist or bytes that are no plist
ValidXml == [fmt |-> "xml", root |-> ExamplePlist]

TreeNodes(path) ==
    CASE path = TargetDir -> {Dir}
      [] path = SubDir    -> {Dir}
      [] path = PathA     -> {File(ValidXml), File(XmlBad), Dir}
      [] path = PathB     -> {File(ValidXml)}
      [] path = PathC     -> {File(ValidXml), File(Garbage)}

\* the entries now in directory d
Children(fsys, d) ==
    {q \in DOMAIN fsys : Len(q) = Len(d) + 1 /\ Parent(q) = d
                            /\ fsys[q].kind # "absent"}

\* os.listdir(d), as the paths of the entries
PyListdir(fsys, d) ==
    CASE fsys[d].kind = "absent" -> Raise("FileNotFoundError")
      [] fsys[d].kind = "file"   -> Raise("NotADirectoryError")
      [] fsys[d].kind = "dir"    -> Ok([entries |-> Children(fsys, d)])

\* a filter that lets every entry through
Mut_IsCandidate_Any(path) == TRUE

\* file_name.endswith('.plist')
IsCandidate(path) == EndsWith(BaseName(path), PlistExt)

\* The generator find_plist_files returns.  Nothing of its body runs before
\* the first next(); status is created, running, done (exhausted) or raised.
\*   pending    : the candidate paths listed and not yet tried
\*   dirs       : recursive mode, the directories os.walk has yet to list
\*   listed     : history, every candidate path a listing has given
\*   considered : history, the candidates tried, each with what was at its
\*                path then
\*   yielded    : the paths of the Plist objects yielded
NewScan(target_dir, recursive) ==
    [mode |-> IF recursive THEN "walk" ELSE "flat", target |-> target_dir,
     status |-> "created", exc |-> "none", pending |-> {}, dirs |-> {},
     listed |-> {}, considered |-> <<>>, yielded |-> {}]

\* find_plist_files(target_dir, recursive): the generator object is made
CallFind(target_dir, recursive) ==
    /\ Idle
    /\ scan = NoScan \/ scan.status \in {"done", "raised"}
    /\ scan' = NewScan(target_dir, recursive)
    /\ UNCHANGED <<fs, plists, ret, changed>>

\* a first next() without the existence check
Mut_ScanStart_NoExistsCheck ==
    /\ Idle
    /\ scan # NoScan
    /\ scan.status = "created"
    /\ scan' =
         IF scan.mode = "flat"
         THEN LET l == PyListdir(fs, scan.target)
              IN  IF l.st = "raise"
                  THEN [scan EXCEPT !.status = "raised", !.exc = l.exc]
                  ELSE LET c == {q \in l.val.entries : IsCandidate(q)}
                       IN  [scan EXCEPT !.status = "running",
                                        !.pending = c, !.listed = c]
         ELSE [scan EXCEPT !.status = "running", !.dirs = {scan.target}]
    /\ UNCHANGED <<fs, plists, ret, changed>>

\* the first next(): the existence check; then, not recursive, os.listdir is
\* evaluated as the generator expression is made; recursive, os.walk is only
\* set up on the target
ScanStart ==
    /\ Idle
    /\ scan # NoScan
    /\ scan.status = "created"
    /\ scan' =
         IF fs[scan.target].kind = "absent"
         THEN [scan EXCEPT !.status = "raised", !.exc = "FileNotFoundError"]
         ELSE IF scan.mode = "flat"
         THEN LET l == PyListdir(fs, scan.target)
              IN  IF l.st = "raise"
                  THEN [scan EXCEPT !.status = "raised", !.exc = l.exc]
                  ELSE LET c == {q \in l.val.entries : IsCandidate(q)}
                       IN  [scan EXCEPT !.status = "running",
                                        !.pending = c, !.listed = c]
         ELSE [scan EXCEPT !.status = "running", !.dirs = {scan.target}]
    /\ UNCHANGED <<fs, plists, ret, changed>>

\* recursive mode: os.walk lists the next directory once the files of the
\* one before are done with; a directory it cannot list is passed over; the
\* entries that are directories are walked later, the others are the
\* file_names
WalkDir(d) ==
    /\ Idle
    /\ scan # NoScan
    /\ scan.status = "running"
    /\ scan.mode = "walk"
    /\ scan.pending = {}
    /\ d \in scan.dirs
    /\ LET l == PyListdir(fs, d)
       IN  scan' =
             IF l.st = "raise" THEN [scan EXCEPT !.dirs = @ \ {d}]
             ELSE LET subdirs == {q \in l.val.entries : fs[q].kind = "dir"}
                      c == {q \in l.val.entries \ subdirs : IsCandidate(q)}
                  IN  [scan EXCEPT !.dirs = (@ \ {d}) \cup subdirs,
                                   !.pending = c, !.listed = @ \cup c]
    /\ UNCHANGED <<fs, plists, ret, changed>>

\* the loop body, either mode: try: yield Plist(path); except
\* InvalidFileException: pass.  Any other exception ends the generator.
ScanTry(path) ==
    /\ Idle
    /\ scan # NoScan
    /\ scan.status = "running"
    /\ path \in scan.pending
    /\ LET out  == Plist_init(fs, PathInput(path))
           seen == [scan EXCEPT
                       !.pending = @ \ {path},
                       !.considered = Append(@, [path |-> path, node |-> fs[path]])]
       IN  /\ scan' =
                IF out.st = "ok" THEN [seen EXCEPT !.yielded = @ \cup {path}]
                ELSE IF out.exc = "InvalidFileException" THEN seen
                ELSE [seen EXCEPT !.status = "raised", !.exc = out.exc]
           /\ plists' = IF out.st = "ok"
                        THEN plists \cup {[cls |-> "Plist", fp |-> out.val.fp]}
                        ELSE plists
    /\ UNCHANGED <<fs, ret, changed>>

\* nothing left to try or to list: the generator is exhausted
ScanEnd ==
    /\ Idle
    /\ scan # NoScan
    /\ scan.status = "running"
    /\ scan.pending = {}
    /\ scan.dirs = {}
    /\ scan' = [scan EXCEPT !.status = "done"]
    /\ UNCHANGED <<fs, plists, ret, changed>>

\* what the environment can do in the tree: write a file in a directory
\* that is there, make a directory in one, remove a file or an empty directory
CanWrite(path, node) ==
    /\ node \in TreeNodes(path)
    /\ node.kind = "file"
    /\ fs[Parent(path)].kind = "dir"

CanMkdir(path) ==
    /\ Dir \in TreeNodes(path)
    /\ IF path = TargetDir THEN TRUE ELSE fs[Parent(path)].kind = "dir"

CanRemove(path) == Children(fs, path) = {}

ScanInit ==
    /\ fs = [path \in TreePaths |-> Absent]
    /\ plists = {}
    /\ ret = NoCall
    /\ changed = {}
    /\ scan = NoScan

ScanNext ==
    \/ \E recursive \in BOOLEAN : CallFind(TargetDir, recursive)
    \/ ScanStart
    \/ \E d \in TreePaths : WalkDir(d)
    \/ \E path \in TreePaths : ScanTry(path)
    \/ ScanEnd
    \/ \E self \in plists : ReadProperties(self)
    \/ \E self \in plists : ReadHash(self)
    \/ \E self \in plists : ReadFileType(self)
    \/ \E self \in plists : ReadKeys(self)
    \/ \E self \in plists : ReadValues(self)
    \/ \E self \in plists : ReadFileExists(self)
    \/ \E self \in plists : ReadFileMode(self)
    \/ \E self \in plists : ReadFileSize(self)
    \/ \E self \in plists : ReadFileCreated(self)
    \/ \E self \in plists : ReadFileUpdated(self)
    \/ \E self \in plists : ReadFileAccessed(self)
    \/ \E self \in plists : ReadFileOwner(self)
    \/ \E self \in plists : ReadFileGroup(self)
    \/ \E self \in plists, other \in plists : CallEq(self, other)
    \/ Return
    \/ \E path \in TreePaths, c \in Contents :
           CanWrite(path, File(c)) /\ EnvWrite(path, c)
    \/ \E path \in TreePaths : CanRemove(path) /\ EnvRemove(path)
    \/ \E path \in TreePaths : CanMkdir(path) /\ EnvMkdir(path)

ScanSpec == ScanInit /\ [][ScanNext]_vars

-----------------------------------------------------------------------------
(* File names, and Plist.name over them                                    *)

MaxStem == 2

\* the characters of the file names: a letter outside '.plist', two letters
\* of it, and the dot
NameChars == {"a", "p", "t", "."}

\* the names before an extension: up to MaxStem characters, the first one
\* not a dot
NameStems ==
    {s \in UNION {[1..n -> NameChars] : n \in 1..MaxStem} : s[1] # "."}

\* the file names: every stem, bare and with '.plist'
FileNames == NameStems \cup {s \o PlistExt : s \in NameStems}

NamePaths == {TargetDir \o <<n>> : n \in FileNames}

RECURSIVE RStrip(_, _)
\* str.rstrip(chars): the trailing characters that are in chars go, one by
\* one, whatever their order
RStrip(s, chars) ==
    IF s = <<>> THEN s
    ELSE IF s[Len(s)] \in chars THEN RStrip(SubSeq(s, 1, Len(s) - 1), chars)
    ELSE s

\* Plist.name: self.file_path.name.rstrip('.plist')
Plist_name(self) ==
    Ok([name |-> RStrip(BaseName(self.fp),
                        {PlistExt[i] : i \in 1..Len(PlistExt)})])

ReadName(self) ==
    /\ Idle
    /\ ret' = [op |-> "name", args |-> <<self>>, out |-> Plist_name(self)]
    /\ UNCHANGED <<fs, plists, changed, scan>>

\* every file name there is holds a valid plist
NameInit ==
    /\ fs = [path \in NamePaths |-> File(ValidXml)]
    /\ plists = {}
    /\ ret = NoCall
    /\ changed = {}
    /\ scan = NoScan

NameNext ==
    \/ \E path \in NamePaths : NewPlist("Plist", PathInput(path))
    \/ \E self \in plists : ReadName(self)
    \/ Return

NameSpec == NameInit /\ [][NameNext]_vars

-----------------------------------------------------------------------------
(* Plist.xml, Plist.plist_version and ProgramPlist, over launchd plists    *)

None == [t |-> "None"]

Slash == "/"

RECURSIVE SplitSlash(_, _)
\* s.split('/'), cur being the segment in hand
SplitSlash(s, cur) ==
    IF s = <<>> THEN <<cur>>
    ELSE IF Head(s) = Slash THEN <<cur>> \o SplitSlash(Tail(s), <<>>)
    ELSE SplitSlash(Tail(s), Append(cur, Head(s)))

\* pathlib.Path(s) for a str s: the root and the names, empty segments and
\* '.' segments dropped
PurePath(s) ==
    [t |-> "Path",
     root |-> s # <<>> /\ Head(s) = Slash,
     parts |-> SelectSeq(SplitSlash(s, <<>>),
                         LAMBDA seg : seg # <<>> /\ seg # <<".">>)]

RECURSIVE JoinSlash(_)
JoinSlash(parts) ==
    IF parts = <<>> THEN <<>>
    ELSE IF Len(parts) = 1 THEN parts[1]
    ELSE parts[1] \o <<Slash>> \o JoinSlash(Tail(parts))

\* str(path)
PathStr(path) ==
    IF path.parts = <<>> THEN (IF path.root THEN <<Slash>> ELSE <<".">>)
    ELSE (IF path.root THEN <<Slash>> ELSE <<>>) \o JoinSlash(path.parts)

\* path.name
PathName(path) ==
    IF path.parts = <<>> THEN <<>> ELSE path.parts[Len(path.parts)]

BinX == <<"/", "b", "i", "n", "/", "x">>
BinY == <<"/", "b", "i", "n", "/", "y">>

KeyLabel            == <<"L", "a", "b", "e", "l">>
KeyProgram          == <<"P", "r", "o", "g", "r", "a", "m">>
KeyProgramArguments == KeyProgram \o <<"A", "r", "g", "u", "m", "e", "n", "t", "s">>

\* {'Label': 'x', 'Program': '/bin/x'}
ProgramOnly ==
    PDict(<<Item(KeyLabel, PStr(<<"x">>)), Item(KeyProgram, PStr(BinX))>>)

\* {'ProgramArguments': ['/bin/y', '-a'], 'Program': '/bin//x/'}
ProgramAndArguments ==
    PDict(<<Item(KeyProgramArguments,
                 PArray(<<PStr(BinY), PStr(<<"-", "a">>)>>)),
            Item(KeyProgram, PStr(<<"/", "b", "i", "n", "/", "/", "x", "/">>))>>)

\* {'ProgramArguments': ['/bin/y', '-a']}
ArgumentsOnly ==
    PDict(<<Item(KeyProgramArguments,
                 PArray(<<PStr(BinY), PStr(<<"-", "a">>)>>))>>)

\* {'Label': 'x', 'ProgramArguments': []}
EmptyArguments ==
    PDict(<<Item(KeyLabel, PStr(<<"x">>)),
            Item(KeyProgramArguments, PArray(<<>>))>>)

\* {'Label': 'x'}
NoProgram == PDict(<<Item(KeyLabel, PStr(<<"x">>))>>)

\* {'Program': 5}
ProgramNotText == PDict(<<Item(KeyProgram, PInt(5))>>)

\* The contents of a launchd plist file.  An XML plist written by hand may
\* leave out the version attribute plistlib.dump writes on the root element.
ProgramContents ==
    {[fmt |-> "xml", root |-> ProgramOnly],
     [fmt |-> "xml", root |-> ProgramAndArguments],
     [fmt |-> "binary", root |-> ArgumentsOnly],
     [fmt |-> "xml", root |-> EmptyArguments],
     [fmt |-> "xml", root |-> NoProgram, version |-> "none"],
     [fmt |-> "binary", root |-> NoProgram],
     [fmt |-> "xml", root |-> ProgramNotText],
     Garbage, XmlBad}

\* the version attribute of the root element of an XML plist
XmlVersion(c) ==
    IF "version" \in DOMAIN c
    THEN (IF c.version = "none" THEN None ELSE [t |-> "str", s |-> c.version])
    ELSE [t |-> "str", s |-> "1.0"]

\* open(path, 'r').read(): the text of the file
ReadText(f) ==
    LET o == PyOpen(f)
    IN  IF o.st = "raise" THEN o ELSE Ok([t |-> "text", of |-> o.val])

\* an xml that is null whenever the file is no XML plist
Mut_Plist_xml_NullOnError(fsys, self) ==
    LET d == plist_dict_from_path(fsys, PathInput(self.fp))
    IN  IF d.st = "raise" THEN Ok([xml |-> None])
        ELSE IF d.val.file_type = "binary" THEN Ok([xml |-> None])
        ELSE Ok([xml |-> ReadText(fsys[self.fp]).val])

\* Plist.xml
Plist_xml(fsys, self) ==
    LET d == plist_dict_from_path(fsys, PathInput(self.fp))
    IN  IF d.st = "raise" THEN d
        ELSE IF d.val.file_type = "binary" THEN Ok([xml |-> None])
        ELSE LET text == ReadText(fsys[self.fp])
             IN  IF text.st = "raise" THEN text ELSE Ok([xml |-> text.val])

\* Plist.plist_version: ElementTree parses the file anew and the 'version'
\* attribute of its root is looked up with attrib.get
Plist_plist_version(fsys, self) ==
    LET ft == Plist_file_type(fsys, self)
    IN  IF ft.st = "raise" THEN ft
        ELSE IF ft.val.file_type # "xml" THEN Ok([plist_version |-> None])
        ELSE LET o == PyOpen(fsys[self.fp])
             IN  IF o.st = "raise" THEN o
                 ELSE Ok([plist_version |-> XmlVersion(o.val)])

\* properties[key] / properties.get(key): the value, or None for no such key
DictGet(its, k) ==
    IF HasKey(its, k)
    THEN its[CHOOSE i \in 1..Len(its) : its[i].k = k].v
    ELSE None

\* Path(value): a str makes a path, any other type is a TypeError
PathFrom(value) ==
    IF value.t = "str" THEN Ok([program_path |-> PurePath(value.s)])
    ELSE Raise("TypeError")

\* value[0]
FirstOf(value) ==
    CASE value.t = "array" ->
             IF value.es = <<>> THEN Raise("IndexError") ELSE Ok(value.es[1])
      [] value.t = "str" ->
             IF value.s = <<>> THEN Raise("IndexError")
             ELSE Ok(PStr(<<value.s[1]>>))
      [] value.t = "data" ->
             IF value.s = <<>> THEN Raise("IndexError")
             ELSE Ok([t |-> "int", n |-> 0])
      [] OTHER -> Raise("TypeError")

\* the one value of a singleton: the value is computed once and then named
TheOne(singleton) == CHOOSE v \in singleton : TRUE

\* the body of program_path, props being the outcome of self.properties:
\* 'Program' is looked up and, on KeyError, 'ProgramArguments'; only a
\* TypeError of the second try gives null
ProgramPathOf(props) ==
    IF props.st = "raise" THEN props
    ELSE IF HasKey(props.val.properties, KeyProgram)
    THEN PathFrom(DictGet(props.val.properties, KeyProgram))
    ELSE LET first == FirstOf(DictGet(props.val.properties,
                                      KeyProgramArguments))
             path  == IF first.st = "raise" THEN first
                      ELSE PathFrom(first.val)
         IN  IF path.st = "raise" /\ path.exc = "TypeError"
             THEN Ok([program_path |-> None])
             ELSE path

\* ProgramPlist.program_path
ProgramPlist_program_path(fsys, self) ==
    TheOne({ProgramPathOf(props) : props \in {Plist_properties(fsys, self)}})

\* the body of program_name, path being the outcome of self.program_path:
\* program_path.name; the AttributeError of None gives null
ProgramNameOf(path) ==
    IF path.st = "raise" THEN path
    ELSE IF path.val.program_path = None THEN Ok([program_name |-> None])
    ELSE Ok([program_name |->
                [t |-> "str", s |-> PathName(path.val.program_path)]])

\* ProgramPlist.program_name
ProgramPlist_program_name(fsys, self) ==
    TheOne({ProgramNameOf(path) :
                path \in {ProgramPlist_program_path(fsys, self)}})

\* The processes psutil.process_iter may find: two running /bin/x, one
\* running /bin/y, one running /bin/xx, and a /bin/x that is gone by the time
\* as_dict() asks (NoSuchProcess)
Proc(pid, exe, gone) == [pid |-> pid, exe |-> exe, gone |-> gone]

Procs ==
    {Proc(1, BinX, FALSE), Proc(2, BinX, FALSE), Proc(3, BinY, FALSE),
     Proc(4, BinX \o <<"x">>, FALSE), Proc(5, BinX, TRUE)}

\* a lookup that matches on the name of the executable
Mut_process_instances_by_exec_path_ByName(table, exec_path) ==
    {proc \in table : ~proc.gone /\ PathName(PurePath(proc.exe)) = PathName(exec_path)}

\* process_instances_by_exec_path(exec_path): the pinfo of every process
\* whose as_dict() succeeds and whose 'exe' is str(exec_path)
process_instances_by_exec_path(table, exec_path) ==
    {proc \in table : ~proc.gone /\ proc.exe = PathStr(exec_path)}

\* {proc_instance['pid']: proc_instance for proc_instance in found}
DictByPid(found) ==
    [pid \in {proc.pid : proc \in found} |->
        CHOOSE proc \in found : proc.pid = pid]

\* the body of process_instances, path being the outcome of
\* self.program_path: null for no program path (a Path is always true), else
\* the read-only dict pid -> pinfo
ProcessInstancesOf(table, path) ==
    IF path.st = "raise" THEN path
    ELSE IF path.val.program_path = None
    THEN Ok([process_instances |-> None])
    ELSE Ok([process_instances |->
                [t |-> "MappingProxyType",
                 m |-> TheOne({DictByPid(found) :
                          found \in {process_instances_by_exec_path(
                                         table, path.val.program_path)}})]])

\* ProgramPlist.process_instances
ProgramPlist_process_instances(fsys, table, self) ==
    TheOne({ProcessInstancesOf(table, path) :
                path \in {ProgramPlist_program_path(fsys, self)}})

\* the body of is_running, procs being the outcome of
\* self.process_instances: len(process_instances) > 0; the TypeError of
\* len(None) gives null, and so does a TypeError that process_instances
\* raises, the read being inside the try
IsRunningOf(procs) ==
    IF procs.st = "raise"
    THEN (IF procs.exc = "TypeError" THEN Ok([is_running |-> None]) ELSE procs)
    ELSE IF procs.val.process_instances = None
    THEN Ok([is_running |-> None])
    ELSE Ok([is_running |->
                [t |-> "bool", b |-> DOMAIN procs.val.process_instances.m # {}]])

\* ProgramPlist.is_running
ProgramPlist_is_running(fsys, table, self) ==
    TheOne({IsRunningOf(procs) :
                procs \in {ProgramPlist_process_instances(fsys, table, self)}})

ReadXml(self) ==
    /\ Idle
    /\ ret' = [op |-> "xml", args |-> <<self>>, out |-> Plist_xml(fs, self)]
    /\ UNCHANGED <<fs, plists, changed, scan>>

ReadPlistVersion(self) ==
    /\ Idle
    /\ ret' = [op |-> "plist_version", args |-> <<self>>,
               out |-> Plist_plist_version(fs, self)]
    /\ UNCHANGED <<fs, plists, changed, scan>>

ReadProgramPath(self) ==
    /\ Idle
    /\ self.cls = "ProgramPlist"
    /\ ret' = [op |-> "program_path", args |-> <<self>>,
               out |-> ProgramPlist_program_path(fs, self)]
    /\ UNCHANGED <<fs, plists, changed, scan>>

ReadProgramName(self) ==
    /\ Idle
    /\ self.cls = "ProgramPlist"
    /\ ret' = [op |-> "program_name", args |-> <<self>>,
               out |-> ProgramPlist_program_name(fs, self)]
    /\ UNCHANGED <<fs, plists, changed, scan>>

\* table: the processes running at the moment of the call
ReadProcessInstances(self, table) ==
    /\ Idle
    /\ self.cls = "ProgramPlist"
    /\ ret' = [op |-> "process_instances", args |-> <<self, table>>,
               out |-> ProgramPlist_process_instances(fs, table, self)]
    /\ UNCHANGED <<fs, plists, changed, scan>>

ReadIsRunning(self, table) ==
    /\ Idle
    /\ self.cls = "ProgramPlist"
    /\ ret' = [op |-> "is_running", args |-> <<self, table>>,
               out |-> ProgramPlist_is_running(fs, table, self)]
    /\ UNCHANGED <<fs, plists, changed, scan>>

\* the launchd plist of the model
ProgramFile == "f1"

ProgramNext ==
    \/ \E cls \in Classes : NewPlist(cls, PathInput(ProgramFile))
    \/ \E self \in plists : ReadXml(self)
    \/ \E self \in plists : ReadPlistVersion(self)
    \/ \E self \in plists : ReadFileType(self)
    \/ \E self \in plists : ReadProgramPath(self)
    \/ \E self \in plists : ReadProgramName(self)
    \/ \E self \in plists, table \in SUBSET Procs :
           ReadProcessInstances(self, table)
    \/ \E self \in plists, table \in SUBSET Procs : ReadIsRunning(self, table)
    \/ Return
    \/ \E c \in ProgramContents : EnvWrite(ProgramFile, c)
    \/ EnvRemove(ProgramFile)
    \/ EnvMkdir(ProgramFile)

ProgramSpec == Init /\ [][ProgramNext]_vars

-----------------------------------------------------------------------------
(* plist_utils.utils.Plist: the entity that keeps its data                 *)

\* What a caller may pass to plist_utils.utils.Plist, each made from file p:
\* the path as a str, the path as a pathlib.Path, the stream open(p, 'rb'),
\* the dict plistlib.load gave for it, the bytes read from it
UtilsInputKinds == {"str", "Path", "stream", "dict", "bytes"}
UtilsInput(kind, p) == [t |-> kind, p |-> p]

\* the contents of the files these entities are made from
SnapshotContents ==
    {[fmt |-> "xml", root |-> ExamplePlist],
     [fmt |-> "binary", root |-> ExamplePlist],
     [fmt |-> "xml", root |-> OtherPlist],
     Garbage}

\* plistlib.load(fp) without fmt: the format is detected from the first
\* bytes, and bytes of neither format are an InvalidFileException
LoadDetect(c) ==
    IF c.fmt \in {"binary", "xml"} THEN Ok(c.root)
    ELSE Raise("InvalidFileException")

\* plist_utils.utils.plist_from_path for a str: FileNotFoundError becomes
\* ValueError, every other error propagates
plist_from_path(fsys, plist_path) ==
    LET o == PyOpen(fsys[plist_path])
    IN  IF o.st = "raise"
        THEN (IF o.exc = "FileNotFoundError" THEN Raise("ValueError") ELSE o)
        ELSE LoadDetect(o.val)

\* plist_utils.utils.json_normalized_plist: the 'value' column, a pd.Series
json_normalized_plist(plist) ==
    [t |-> "Series", items |-> json_normalized_plist_dict(plist)]

\* The object __init__ leaves, given the outcome of the decode it made (for
\* a str or a stream) and what the file held then.  _data and _path are the
\* attributes; input and given are history.
UtilsObject(plist_input, given, decoded) ==
    [cls |-> "plist_utils.Plist",
     data |-> IF plist_input.t \in {"str", "stream"}
              THEN json_normalized_plist(decoded.val) ELSE None,
     path |-> IF plist_input.t = "str"
              THEN [t |-> "Path", p |-> plist_input.p] ELSE None,
     input |-> plist_input,
     given |-> given]

\* plist_utils.utils.Plist.__init__: a str is decoded through
\* plist_from_path, an io.BufferedReader through plistlib.load; any other
\* input matches neither isinstance test and leaves _data and _path None
UtilsPlist_init(fsys, plist_input) ==
    LET f == fsys[plist_input.p]
        decoded == IF plist_input.t = "str"
                   THEN plist_from_path(fsys, plist_input.p)
                   ELSE IF plist_input.t = "stream" THEN LoadDetect(f.content)
                   ELSE Ok(None)
    IN  IF decoded.st = "raise" THEN decoded
        ELSE Ok([object |-> UtilsObject(plist_input, f, decoded)])

\* a data that decodes the file again
Mut_UtilsPlist_data_Reread(fsys, self) ==
    LET again == plist_from_path(fsys, self.input.p)
    IN  IF again.st = "raise" THEN again
        ELSE Ok([data |-> json_normalized_plist(again.val)])

\* plist_utils.utils.Plist.data: self._data
UtilsPlist_data(fsys, self) == Ok([data |-> self.data])

\* plist_utils.utils.Plist.__eq__: self._data.equals(other_plist._data);
\* None has no equals, and Series.equals(None) is False
UtilsPlist_eq(fsys, self, other_plist) ==
    IF self.data = None THEN Raise("AttributeError")
    ELSE Ok([eq |-> self.data = other_plist.data])

\* the caller can make the input: a stream and bytes need a file to open, a
\* dict a file that plistlib.load decodes to a dict
CanMake(plist_input) ==
    CASE plist_input.t \in {"stream", "bytes"} ->
             fs[plist_input.p].kind = "file"
      [] plist_input.t = "dict" ->
             /\ fs[plist_input.p].kind = "file"
             /\ LoadDetect(fs[plist_input.p].content).st = "ok"
      [] OTHER -> TRUE

NewUtilsPlist(plist_input) ==
    /\ Idle
    /\ CanMake(plist_input)
    /\ \E out \in {UtilsPlist_init(fs, plist_input)} :
           /\ plists' = IF out.st = "ok" THEN plists \cup {out.val.object}
                        ELSE plists
           /\ Cardinality(plists') <= MaxPlists
           /\ ret' = [op |-> "__init__", args |-> <<plist_input>>, out |-> out]
    /\ UNCHANGED <<fs, changed, scan>>

ReadData(self) ==
    /\ Idle
    /\ ret' = [op |-> "data", args |-> <<self>>,
               out |-> UtilsPlist_data(fs, self)]
    /\ UNCHANGED <<fs, plists, changed, scan>>

CallUtilsEq(self, other) ==
    /\ Idle
    /\ ret' = [op |-> "__eq__", args |-> <<self, other>>,
               out |-> UtilsPlist_eq(fs, self, other)]
    /\ UNCHANGED <<fs, plists, changed, scan>>

\* the environment, between calls: a file is written or removed
SnapshotWrite(p, c) ==
    /\ Idle
    /\ fs' = [fs EXCEPT ![p] = File(c)]
    /\ fs' # fs
    /\ UNCHANGED <<plists, ret, changed, scan>>

SnapshotRemove(p) ==
    /\ Idle
    /\ fs[p].kind = "file"
    /\ fs' = [fs EXCEPT ![p] = Absent]
    /\ UNCHANGED <<plists, ret, changed, scan>>

SnapshotNext ==
    \/ \E kind \in UtilsInputKinds, p \in Paths :
           NewUtilsPlist(UtilsInput(kind, p))
    \/ \E self \in plists : ReadData(self)
    \/ \E self \in plists, other \in plists : CallUtilsEq(self, other)
    \/ Return
    \/ \E p \in Paths, c \in SnapshotContents : SnapshotWrite(p, c)
    \/ \E p \in Paths : SnapshotRemove(p)

SnapshotSpec == Init /\ [][SnapshotNext]_vars

-----------------------------------------------------------------------------
(* Calls that read the file twice, and a writer in between                 *)

\* A call in flight is kept in ret with the step it has reached (pc) and,
\* as history, every state the raced file was in during the call (held).
RacePath == "f1"

RaceContents ==
    {[fmt |-> "xml", root |-> ExamplePlist],
     [fmt |-> "binary", root |-> ExamplePlist],
     [fmt |-> "xml", root |-> OtherPlist],
     Garbage}

InFlight == ret # NoCall /\ "pc" \in DOMAIN ret /\ ret.pc # "done"

\* plist_dict_from_path(p), the first try block: the file is opened and
\* loaded as binary; the call is over unless that raised ExpatError or
\* InvalidFileException
DecodeBegin(p) ==
    /\ Idle
    /\ \E b \in {BinaryAttempt(fs[p])} :
           ret' = [op |-> "plist_dict_from_path", args |-> <<PathInput(p)>>,
                   pc |-> IF b.st = "raise" /\ b.exc \in {"ExpatError",
                                                         "InvalidFileException"}
                          THEN "fallback" ELSE "done",
                   first |-> fs[p], held |-> {fs[RacePath]}, out |-> b]
    /\ UNCHANGED <<fs, plists, changed, scan>>

\* the handler: the file is opened again and loaded as XML
DecodeFallback ==
    /\ InFlight
    /\ ret.op = "plist_dict_from_path"
    /\ ret.pc = "fallback"
    /\ ret' = [ret EXCEPT !.pc = "done",
                          !.out = DecodeAttempts(ret.first, fs[ret.args[1].p])]
    /\ UNCHANGED <<fs, plists, changed, scan>>

\* self == other_plist, the first statement: self.properties is read
EqBegin(self, other) ==
    /\ Idle
    /\ \E this \in {Plist_properties(fs, self)} :
           ret' = [op |-> "__eq__", args |-> <<self, other>>,
                   pc |-> IF this.st = "raise" THEN "done" ELSE "other",
                   this |-> this, held |-> {fs[RacePath]}, out |-> this]
    /\ UNCHANGED <<fs, plists, changed, scan>>

\* the second statement, other_plist.properties is read, and the comparison
EqEnd ==
    /\ InFlight
    /\ ret.op = "__eq__"
    /\ ret.pc = "other"
    /\ \E that \in {Plist_properties(fs, ret.args[2])} :
           ret' = [ret EXCEPT
                      !.pc = "done",
                      !.out = IF that.st = "raise" THEN that
                              ELSE Ok([eq |-> EqOfProperties(
                                          ret.this.val.properties,
                                          that.val.properties)])]
    /\ UNCHANGED <<fs, plists, changed, scan>>

\* the caller has the outcome of a finished call
RaceReturn ==
    /\ ~Idle
    /\ ~InFlight
    /\ Return

\* another process replaces or removes the file, between calls or between
\* the two reads of a call in flight
Seen(f) == IF InFlight THEN [ret EXCEPT !.held = @ \cup {f}] ELSE ret

RaceWrite(p, c) ==
    /\ Idle \/ InFlight
    /\ fs[p] # File(c)
    /\ fs' = [fs EXCEPT ![p] = File(c)]
    /\ ret' = Seen(fs'[RacePath])
    /\ UNCHANGED <<plists, changed, scan>>

RaceRemove(p) ==
    /\ Idle \/ InFlight
    /\ fs[p].kind = "file"
    /\ fs' = [fs EXCEPT ![p] = Absent]
    /\ ret' = Seen(fs'[RacePath])
    /\ UNCHANGED <<plists, changed, scan>>

RaceNext ==
    \/ DecodeBegin(RacePath)
    \/ DecodeFallback
    \/ NewPlist("Plist", PathInput(RacePath))
    \/ \E self \in plists, other \in plists : EqBegin(self, other)
    \/ EqEnd
    \/ RaceReturn
    \/ \E c \in RaceContents : RaceWrite(RacePath, c)
    \/ RaceRemove(RacePath)

RaceSpec == Init /\ [][RaceNext]_vars

-----------------------------------------------------------------------------
(* Properties of the decoder and of the constructor                        *)

\* what the two parsers make of a file's bytes
BinaryDict(c) == LoadBinary(c).st = "ok" /\ IsDict(LoadBinary(c).val)
XmlDict(c)    == LoadXml(c).st = "ok" /\ IsDict(LoadXml(c).val)
ValidPlist(c) == BinaryDict(c) \/ XmlDict(c)

\* the tag the claim gives a file's bytes
TagOf(c) == IF BinaryDict(c) THEN "binary" ELSE "xml"

DecodedFile ==
    /\ ret.op = "plist_dict_from_path"
    /\ ret.args[1].t = "path"
    /\ fs[ret.args[1].p].kind = "file"

\* C1: plist_dict_from_path returns (mapping, 'binary') exactly when the bytes
\* of the file parse as a binary plist with a dict root, and (mapping, 'xml')
\* exactly when the binary attempt fails (parse error or a root that is no
\* dict) and the bytes parse as an XML plist with a dict root; Plist.file_type
\* reports that same tag for the content the file has at the call.
C1_BinaryFirstThenXml ==
    /\ DecodedFile =>
         LET c == fs[ret.args[1].p].content
         IN  /\ (ret.out.st = "ok" /\ ret.out.val.file_type = "binary")
                    <=> BinaryDict(c)
             /\ BinaryDict(c) =>
                    ret.out = Ok([plist |-> LoadBinary(c).val, file_type |-> "binary"])
             /\ (ret.out.st = "ok" /\ ret.out.val.file_type = "xml")
                    <=> (~BinaryDict(c) /\ XmlDict(c))
             /\ (~BinaryDict(c) /\ XmlDict(c)) =>
                    ret.out = Ok([plist |-> LoadXml(c).val, file_type |-> "xml"])
    /\ (ret.op = "file_type" /\ fs[ret.args[1].fp].kind = "file") =>
         LET c == fs[ret.args[1].fp].content
         IN  /\ ValidPlist(c) => ret.out = Ok([file_type |-> TagOf(c)])
             /\ ret.out.st = "ok" => ValidPlist(c)

\* an XML plist was decoded: the binary attempt failed, the XML attempt gave
\* the dict
C1_Witness ==
    /\ DecodedFile
    /\ fs[ret.args[1].p].content = [fmt |-> "xml", root |-> ExamplePlist]
    /\ ret.out = Ok([plist |-> ExamplePlist, file_type |-> "xml"])

\* C2: for an existing file, plist_dict_from_path raises InvalidFileException
\* exactly when neither the binary nor the XML attempt yields a dict-rooted
\* structure, and a root that is no dict is never returned.
C2_InvalidFileIffNoDict ==
    DecodedFile =>
        LET c == fs[ret.args[1].p].content
        IN  /\ (ret.out = Raise("InvalidFileException")) <=> ~ValidPlist(c)
            /\ ret.out.st = "ok" => IsDict(ret.out.val.plist)

\* C3: decoding a path that is no existing regular file (nothing there, or a
\* directory) fails with FileNotFoundError and with no other error.
C3_NotFoundUnlessRegularFile ==
    (/\ ret.op = "plist_dict_from_path"
     /\ ret.args[1].t = "path"
     /\ fs[ret.args[1].p].kind # "file")
        => ret.out = Raise("FileNotFoundError")

\* the input names a file that currently holds a valid plist
ValidPlistInput(x) ==
    /\ x.t = "path"
    /\ fs[x.p].kind = "file"
    /\ ValidPlist(fs[x.p].content)

\* C4: constructing a Plist or a ProgramPlist raises InvalidFileException for
\* every input that is no path to a currently valid plist file; no other
\* exception escapes the constructor and no object with a path is created.
C4_ConstructorInvalidFile ==
    (ret.op = "__init__" /\ ~ValidPlistInput(ret.args[2]))
        => ret.out = Raise("InvalidFileException")

\* C5 as claimed: an argument of an unrecognised type (None, an int, ...)
\* makes the decoder and the constructor fail with an error that is neither
\* InvalidFile nor NotFound.
C5_InvalidInputDistinct ==
    (ret.op \in {"plist_dict_from_path", "__init__"}
        /\ ret.args[Len(ret.args)].t # "path")
        => /\ ret.out.st = "raise"
           /\ ret.out.exc \notin {"InvalidFileException", "FileNotFoundError"}

\* C5, amended: an argument of an unrecognised type makes the decoder and the
\* constructor fail with InvalidFileException, the error an undecodable file
\* gives.
C5_NonPathIsInvalidFile ==
    (ret.op \in {"plist_dict_from_path", "__init__"}
        /\ ret.args[Len(ret.args)].t # "path")
        => ret.out = Raise("InvalidFileException")

\* Plist(None) has raised
C5_Witness ==
    /\ ret.op = "__init__"
    /\ ret.args = <<"Plist", NonPath("None")>>
    /\ ret.out = Raise("InvalidFileException")

-----------------------------------------------------------------------------
(* Properties of flattening                                                *)

RECURSIVE LeafPathsFrom(_, _)
\* the paths (sequences of keys) that reach a value that is no dict by
\* descending through dicts only
LeafPathsFrom(its, prefix) ==
    UNION {IF IsDict(its[i].v)
           THEN LeafPathsFrom(its[i].v.items, Append(prefix, its[i].k))
           ELSE {Append(prefix, its[i].k)} : i \in 1..Len(its)}

LeafPaths(d) == LeafPathsFrom(d.items, <<>>)

RECURSIVE JoinPath(_)
\* '.'.join(path)
JoinPath(path) ==
    IF Len(path) = 1 THEN path[1]
    ELSE path[1] \o <<".">> \o JoinPath(Tail(path))

RECURSIVE ValueAt(_, _)
\* the value a path leads to
ValueAt(its, path) ==
    LET v == its[CHOOSE i \in 1..Len(its) : its[i].k = path[1]].v
    IN  IF Len(path) = 1 THEN v ELSE ValueAt(v.items, Tail(path))

\* no two leaf paths join to the same key
JoinInjective(d) ==
    \A p1 \in LeafPaths(d), p2 \in LeafPaths(d) :
        JoinPath(p1) = JoinPath(p2) => p1 = p2

\* the dict a valid plist file decodes to
DecodedRoot(p) ==
    IF BinaryDict(fs[p].content) THEN LoadBinary(fs[p].content).val
    ELSE LoadXml(fs[p].content).val

PropertiesRead == ret.op = "properties" /\ ret.out.st = "ok"

KeySet(flat) == {flat[i].k : i \in 1..Len(flat)}

\* C6 as claimed: the flattened dict has exactly one entry per leaf, keyed by
\* the leaf's dot-joined path, none for an empty dict, and distinct leaf paths
\* never share a key, so there are as many entries as leaves.
C6_OneEntryPerLeaf ==
    PropertiesRead =>
        LET d    == DecodedRoot(ret.args[1].fp)
            flat == ret.out.val.properties
        IN  /\ KeySet(flat) = {JoinPath(path) : path \in LeafPaths(d)}
            /\ JoinInjective(d)
            /\ Len(flat) = Cardinality(LeafPaths(d))

\* What the flattener does give: one entry per distinct dot-joined leaf path
\* and none for an empty dict; leaf paths that join to the same key (a key may
\* hold a dot) share one entry, so entries are as many as leaves only when no
\* two leaf paths join to the same key.
Flatten_OneEntryPerJoinedPath ==
    PropertiesRead =>
        LET d    == DecodedRoot(ret.args[1].fp)
            flat == ret.out.val.properties
        IN  /\ KeySet(flat) = {JoinPath(path) : path \in LeafPaths(d)}
            /\ Len(flat) = Cardinality(KeySet(flat))
            /\ JoinInjective(d) => Len(flat) = Cardinality(LeafPaths(d))

\* the entries of flat under the joined key of a path
EntriesAt(flat, path) == {i \in 1..Len(flat) : flat[i].k = JoinPath(path)}

\* C7 as claimed: every array (also one holding dicts) gives exactly one entry
\* under its own dot-joined key, whose value is the array unchanged, and no key
\* comes from inside an array.
C7_ArraysAreLeaves ==
    PropertiesRead =>
        LET d    == DecodedRoot(ret.args[1].fp)
            flat == ret.out.val.properties
        IN  /\ \A path \in LeafPaths(d) :
                   ValueAt(d.items, path).t = "array" =>
                       /\ Cardinality(EntriesAt(flat, path)) = 1
                       /\ \A i \in EntriesAt(flat, path) :
                              flat[i].v = ValueAt(d.items, path)
            /\ KeySet(flat) \subseteq {JoinPath(path) : path \in LeafPaths(d)}

\* What the flattener does give: an array whose dot-joined key no other leaf
\* path shares has exactly one entry under that key, whose value is the array
\* unchanged, and no key comes from inside an array; arrays are lost only
\* where leaf paths collide.
Flatten_UnsharedArraysAreLeaves ==
    PropertiesRead =>
        LET d    == DecodedRoot(ret.args[1].fp)
            flat == ret.out.val.properties
        IN  /\ \A path \in LeafPaths(d) :
                   ValueAt(d.items, path).t = "array" =>
                       /\ Cardinality(EntriesAt(flat, path)) = 1
                       /\ (\A other \in LeafPaths(d) :
                               JoinPath(other) = JoinPath(path) => other = path)
                           => \A i \in EntriesAt(flat, path) :
                                  flat[i].v = ValueAt(d.items, path)
            /\ KeySet(flat) \subseteq {JoinPath(path) : path \in LeafPaths(d)}

-----------------------------------------------------------------------------
(* Properties of the digest and of equality                                *)

RECURSIVE AsMapping(_)
\* a dict without its insertion order, at every nesting level
AsMapping(its) ==
    [k \in KeySet(its) |->
        LET v == its[CHOOSE i \in 1..Len(its) : its[i].k = k].v
        IN  IF IsDict(v) THEN [t |-> "mapping", m |-> AsMapping(v.items)]
            ELSE v]

\* b is a with the insertion order of its keys permuted at any level
Permuted(a, b) == AsMapping(a.items) = AsMapping(b.items)

HashRead == ret.op = "hash" /\ ret.out.st = "ok"
EqRead == ret.op = "__eq__" /\ ret.out.st = "ok"

\* the files that now decode to a plist dict
PlistFiles == {p \in Paths : fs[p].kind = "file" /\ ValidPlist(fs[p].content)}

\* the digest of the flattened data of the plist now in file p
DigestOfFile(p) ==
    HashOfProperties(json_normalized_plist_dict(DecodedRoot(p)))

\* C8 as claimed: the digest does not depend on key insertion order at any
\* nesting level, and entities over a mapping and a permutation of it are
\* equal.
C8_DigestOrderIndependent ==
    /\ HashRead =>
           \A p \in PlistFiles :
               Permuted(DecodedRoot(ret.args[1].fp), DecodedRoot(p))
                   => ret.out.val = DigestOfFile(p)
    /\ EqRead =>
           (Permuted(DecodedRoot(ret.args[1].fp), DecodedRoot(ret.args[2].fp))
                => ret.out.val.eq)

\* What the digest does give: order independence for the mappings in which no
\* two leaf paths dot-join to the same key; the order matters only where the
\* flattener lets a later leaf overwrite an earlier one.
Digest_OrderIndependentWithoutCollision ==
    /\ HashRead =>
           \A p \in PlistFiles :
               (JoinInjective(DecodedRoot(p))
                /\ Permuted(DecodedRoot(ret.args[1].fp), DecodedRoot(p)))
                   => ret.out.val = DigestOfFile(p)
    /\ EqRead =>
           ((JoinInjective(DecodedRoot(ret.args[1].fp))
             /\ Permuted(DecodedRoot(ret.args[1].fp),
                         DecodedRoot(ret.args[2].fp)))
                => ret.out.val.eq)

\* the entries of flat in ascending order of their keys
Ascending(flat) ==
    LET n == Len(flat)
        perm == CHOOSE f \in [1..n -> 1..n] :
                    /\ \A i \in 1..n, j \in 1..n : f[i] = f[j] => i = j
                    /\ \A i \in 1..n, j \in 1..n :
                           i < j => ~StrLess(flat[f[j]].k, flat[f[i]].k)
    IN  [i \in 1..n |-> flat[perm[i]]]

RECURSIVE Fed(_, _)
\* the concatenation of the bytes Canon gives for each entry's value
Fed(Canon(_), entries) ==
    IF entries = <<>> THEN <<>>
    ELSE Canon(entries[1].v) \o Fed(Canon, Tail(entries))

\* canonical bytes as claimed: bytes verbatim, anything else its display string
VerbatimBytes(v) == IF v.t = "data" THEN v.s ELSE PyStr(v)

\* canonical bytes as computed: the display string of every value, bytes too
DisplayBytes(v) == PyStr(v)

\* C9 as claimed: the digest is BLAKE2b of the concatenation, in ascending key
\* order, of each value's bytes, a byte-sequence value being fed verbatim and
\* any other value as its display string; no separators, no keys.
C9_DigestFedVerbatimBytes ==
    HashRead =>
        ret.out.val.pyhash.blake2b =
            Fed(VerbatimBytes,
                Ascending(json_normalized_plist_dict(
                              DecodedRoot(ret.args[1].fp))))

\* C9, amended: the digest is BLAKE2b of the concatenation, in ascending key
\* order, of the display string of each value, a byte-sequence value included
\* (b'..' with its quotes, never the bytes themselves); no separators, no
\* keys.
C9_DigestFedDisplayStrings ==
    HashRead =>
        ret.out.val.pyhash.blake2b =
            Fed(DisplayBytes,
                Ascending(json_normalized_plist_dict(
                              DecodedRoot(ret.args[1].fp))))

\* the digest of a plist holding a byte-sequence value was read: the bytes
\* went in as their display string
C9_Witness ==
    /\ HashRead
    /\ DecodedRoot(ret.args[1].fp) = DataPlist
    /\ ret.out.val.pyhash.blake2b =
           <<"b", "'", "a", "b", "'", "c">>

\* C10 as claimed: two entities over unchanged files are equal exactly when
\* their digests match.
C10_EqIffDigestsMatch ==
    EqRead =>
        (ret.out.val.eq <=>
            DigestOfFile(ret.args[1].fp) = DigestOfFile(ret.args[2].fp))

\* two flattened dicts with the same keys and, key by key, the same display
\* string of the value
SameKeysAndStrings(a, b) ==
    /\ KeySet(a) = KeySet(b)
    /\ \A i \in 1..Len(a), j \in 1..Len(b) :
           a[i].k = b[j].k => PyStr(a[i].v) = PyStr(b[j].v)

\* C10, amended: two entities over unchanged files are equal exactly when
\* their flattened data have the same keys and, key by key, the same
\* stringified value; equal entities have matching digests, and matching
\* digests do not make entities equal.
C10_EqIffSameKeysAndStrings ==
    EqRead =>
        LET a == json_normalized_plist_dict(DecodedRoot(ret.args[1].fp))
            b == json_normalized_plist_dict(DecodedRoot(ret.args[2].fp))
        IN  /\ ret.out.val.eq <=> SameKeysAndStrings(a, b)
            /\ ret.out.val.eq =>
                   DigestOfFile(ret.args[1].fp) = DigestOfFile(ret.args[2].fp)

\* two entities with matching digests compared unequal
C10_Witness ==
    /\ EqRead
    /\ ~ret.out.val.eq
    /\ DecodedRoot(ret.args[1].fp) # DecodedRoot(ret.args[2].fp)
    /\ DigestOfFile(ret.args[1].fp) = DigestOfFile(ret.args[2].fp)

-----------------------------------------------------------------------------
(* Properties of the file-backed entity                                    *)

\* the sorted, stringified flattened values of the plist now in file p
SortedValuesOfFile(p) ==
    SeriesValues(StrSeries(json_normalized_plist_dict(DecodedRoot(p))))

\* C11: equality and hash depend on the logical content only: entities whose
\* files hold the same logical values (the same mapping, whatever the paths,
\* the metadata, the encodings) are equal and have the same hash, and entities
\* whose sorted stringified flattened values differ are unequal.
C11_ContentOnly ==
    /\ EqRead =>
           LET a == ret.args[1].fp
               b == ret.args[2].fp
           IN  /\ Permuted(DecodedRoot(a), DecodedRoot(b)) => ret.out.val.eq
               /\ SortedValuesOfFile(a) # SortedValuesOfFile(b)
                      => ~ret.out.val.eq
    /\ HashRead =>
           \A p \in PlistFiles :
               Permuted(DecodedRoot(ret.args[1].fp), DecodedRoot(p))
                   => ret.out.val = DigestOfFile(p)

\* What equality and hash do give: they depend on the logical content only
\* for the mappings in which no two leaf paths dot-join to the same key.
Equality_ContentOnlyWithoutCollision ==
    /\ EqRead =>
           LET a == ret.args[1].fp
               b == ret.args[2].fp
           IN  /\ (JoinInjective(DecodedRoot(a))
                   /\ Permuted(DecodedRoot(a), DecodedRoot(b)))
                      => ret.out.val.eq
               /\ SortedValuesOfFile(a) # SortedValuesOfFile(b)
                      => ~ret.out.val.eq
    /\ HashRead =>
           \A p \in PlistFiles :
               (JoinInjective(DecodedRoot(p))
                /\ Permuted(DecodedRoot(ret.args[1].fp), DecodedRoot(p)))
                   => ret.out.val = DigestOfFile(p)

\* a binary and an XML file of the same values, at two paths, compared equal
Equality_AcrossEncodings ==
    /\ EqRead
    /\ ret.out.val.eq
    /\ ret.args[1].fp # ret.args[2].fp
    /\ fs[ret.args[1].fp].content.fmt = "binary"
    /\ fs[ret.args[2].fp].content.fmt = "xml"

\* the reads that go through Plist.properties
DataReads == {"properties", "keys", "values", "hash"}

\* C12: once the backing file of a constructed Plist is deleted, the next read
\* of properties, keys, values or hash raises FileNotFoundError, and so does
\* an equality in which the deleted file is the first one read.
C12_DeletedFileNotFound ==
    /\ (ret.op \in DataReads /\ fs[ret.args[1].fp].kind = "absent")
           => ret.out = Raise("FileNotFoundError")
    /\ (ret.op = "__eq__" /\ fs[ret.args[1].fp].kind = "absent")
           => ret.out = Raise("FileNotFoundError")
    /\ (/\ ret.op = "__eq__"
        /\ ret.args[1].fp \in PlistFiles
        /\ fs[ret.args[2].fp].kind = "absent")
           => ret.out = Raise("FileNotFoundError")

\* the properties of an entity were read after its file was deleted
C12_Witness ==
    /\ ret.op = "properties"
    /\ ret.args[1] \in changed
    /\ fs[ret.args[1].fp].kind = "absent"
    /\ ret.out = Raise("FileNotFoundError")

\* C13: once the bytes of the backing file of a constructed Plist are valid
\* neither as a binary nor as an XML plist, the next read of properties
\* raises InvalidFileException.
C13_CorruptedFileInvalid ==
    (/\ ret.op = "properties"
     /\ fs[ret.args[1].fp].kind = "file"
     /\ ~ValidPlist(fs[ret.args[1].fp].content))
        => ret.out = Raise("InvalidFileException")

\* What properties does give on such a file: InvalidFileException unless the
\* bytes are well-formed XML that is no plist, which gives ValueError.
Properties_CorruptedFileInvalidOrValueError ==
    (/\ ret.op = "properties"
     /\ fs[ret.args[1].fp].kind = "file"
     /\ ~ValidPlist(fs[ret.args[1].fp].content))
        => ret.out = IF fs[ret.args[1].fp].content = XmlBad
                     THEN Raise("ValueError")
                     ELSE Raise("InvalidFileException")

\* what a read gives when it decodes and flattens the file now at p
FreshRead(op, p) ==
    LET flat == json_normalized_plist_dict(DecodedRoot(p))
    IN  CASE op = "properties" -> Ok([properties |-> flat])
          [] op = "keys"       -> Ok([keys |-> [i \in 1..Len(flat) |-> flat[i].k]])
          [] op = "values"     -> Ok([values |-> [i \in 1..Len(flat) |-> flat[i].v]])
          [] op = "hash"       -> Ok(DigestOfFile(p))
          [] op = "file_type"  -> Ok([file_type |-> TagOf(fs[p].content)])

\* C14: a Plist caches nothing: every read of properties, keys, values, hash
\* or file_type gives what decoding and flattening the file gives at the
\* moment of the read (an error when the file is then no valid plist), and the
\* object keeps nothing but its path.
C14_NoCaching ==
    /\ ret.op \in DataReads \cup {"file_type"} =>
           IF ret.args[1].fp \in PlistFiles
           THEN ret.out = FreshRead(ret.op, ret.args[1].fp)
           ELSE ret.out.st = "raise"
    /\ \A e \in plists : DOMAIN e = {"cls", "fp"}

\* the properties of an entity were read after its file was replaced by a
\* binary plist, and are those of the file as it is now
C14_Witness ==
    /\ ret.op = "properties"
    /\ ret.args[1] \in changed
    /\ ret.args[1].fp \in PlistFiles
    /\ fs[ret.args[1].fp].content.fmt = "binary"
    /\ ret.out = FreshRead("properties", ret.args[1].fp)

\* the metadata reads other than existence
StatReads ==
    {"file_mode", "file_size", "file_created", "file_updated",
     "file_accessed", "file_owner", "file_group"}

\* C15 as claimed: every metadata read of an entity whose file was deleted
\* since construction (size, mode, owner, group, the three timestamps, and
\* existence) fails with FileNotFoundError.
C15_MetadataNotFound ==
    (/\ ret.op \in StatReads \cup {"file_exists"}
     /\ fs[ret.args[1].fp].kind = "absent")
        => ret.out = Raise("FileNotFoundError")

\* C15, amended: the reads of size, mode, owner, group and the three
\* timestamps of an entity whose file was deleted since construction fail with
\* FileNotFoundError; the read of existence does not fail, it returns False.
C15_MetadataNotFoundExistsFalse ==
    /\ (ret.op \in StatReads /\ fs[ret.args[1].fp].kind = "absent")
           => ret.out = Raise("FileNotFoundError")
    /\ (ret.op = "file_exists" /\ fs[ret.args[1].fp].kind = "absent")
           => ret.out = Ok([file_exists |-> FALSE])

\* file_exists was read on an entity whose file was deleted: False
C15_Witness ==
    /\ ret.op = "file_exists"
    /\ ret.args[1] \in changed
    /\ fs[ret.args[1].fp].kind = "absent"
    /\ ret.out = Ok([file_exists |-> FALSE])

-----------------------------------------------------------------------------
(* Properties of find_plist_files and of the operations as a whole         *)

\* a step of the program: a call, a return, a step of the generator
ProgramStep == ret' # ret \/ scan' # scan \/ plists' # plists

\* C16: no operation changes a file: every step of a construction, a read, a
\* hash, an equality, a metadata read or a directory scan leaves the content
\* and the existence of every path as the environment last made them.
C16_NoOperationMutatesFiles == [][ProgramStep => fs' = fs]_vars

\* a scan has yielded, and an entity it yielded was hashed, with the file
\* still there
C16_Witness ==
    /\ scan.status = "done"
    /\ ret.op = "hash"
    /\ ret.out.st = "ok"
    /\ ret.args[1].fp \in scan.yielded
    /\ fs[ret.args[1].fp] = File(ValidXml)

\* what was at a candidate's path when it was tried was a valid plist file
WasValid(entry) == entry.node.kind = "file" /\ ValidPlist(entry.node.content)

\* C17: a scan of an existing directory never aborts because of a candidate:
\* the generator raises only for a target that does not exist, and a candidate
\* is yielded exactly when it is a valid plist file, any other being passed
\* over.
C17_ScanNeverAborts ==
    /\ scan.status = "raised" =>
           scan.exc = "FileNotFoundError" /\ scan.considered = <<>>
    /\ \A i \in 1..Len(scan.considered) :
           scan.considered[i].path \in scan.yielded
               <=> WasValid(scan.considered[i])

\* What a scan does give: a candidate is yielded exactly when it is a valid
\* plist file; the scan passes over bytes that are no plist and a candidate
\* that is gone, and aborts on well-formed XML that is no plist (ValueError)
\* and on a candidate that is a directory (IsADirectoryError).
Scan_AbortsOnlyOnUncaughtErrors ==
    /\ scan.status = "raised" =>
           IF scan.considered = <<>> THEN scan.exc = "FileNotFoundError"
           ELSE LET last == scan.considered[Len(scan.considered)]
                IN  \/ last.node = File(XmlBad) /\ scan.exc = "ValueError"
                    \/ last.node = Dir /\ scan.exc = "IsADirectoryError"
    /\ \A i \in 1..Len(scan.considered) :
           scan.considered[i].path \in scan.yielded
               <=> WasValid(scan.considered[i])

\* the name of the entry ends in '.plist'
HasPlistExtension(path) ==
    LET n == BaseName(path)
    IN  /\ Len(n) >= Len(PlistExt)
        /\ SubSeq(n, Len(n) - Len(PlistExt) + 1, Len(n)) = PlistExt

\* path lies somewhere below the directory d
IsUnder(path, d) == Len(path) > Len(d) /\ SubSeq(path, 1, Len(d)) = d

ConsideredPaths == {scan.considered[i].path : i \in 1..Len(scan.considered)}

\* what a scan has listed, tried and yielded, at any moment
ScanKeepsToPlistEntries ==
    /\ \A q \in scan.listed :
           /\ HasPlistExtension(q)
           /\ scan.mode = "flat" => Parent(q) = scan.target
           /\ scan.mode = "walk" => IsUnder(q, scan.target)
    /\ ConsideredPaths \subseteq scan.listed
    /\ \A i, j \in 1..Len(scan.considered) :
           scan.considered[i].path = scan.considered[j].path => i = j
    /\ scan.yielded \subseteq ConsideredPaths
    /\ scan.status = "done" =>
           ConsideredPaths = scan.listed /\ scan.pending = {} /\ scan.dirs = {}
    /\ scan.mode = "flat" => PathC \notin scan.yielded
    /\ PathB \notin scan.yielded

\* what a listing step takes: the first next() of a flat scan takes the
\* entries of the target ending in '.plist'; a step of the walk takes the
\* files of the directory ending in '.plist' and queues its subdirectories
ListingTakesPlistEntries ==
    /\ (scan.status = "created" /\ scan'.status = "running"
            /\ scan.mode = "flat") =>
           scan'.listed = {q \in Children(fs, scan.target) : HasPlistExtension(q)}
    /\ (scan.status = "created" /\ scan'.status = "running"
            /\ scan.mode = "walk") =>
           scan'.dirs = {scan.target} /\ scan'.listed = {}
    /\ \A d \in scan.dirs \ scan'.dirs :
           (scan'.status = "running" /\ fs[d].kind = "dir") =>
               /\ scan'.listed = scan.listed \cup
                      {q \in Children(fs, d) :
                           fs[q].kind = "file" /\ HasPlistExtension(q)}
               /\ scan'.dirs = (scan.dirs \ {d}) \cup
                      {q \in Children(fs, d) : fs[q].kind = "dir"}

\* C18: a scan considers exactly the entries whose names end in '.plist':
\* not recursive, the entries directly in the target; recursive, the files
\* of every directory of the subtree; each candidate is tried once, a plist
\* in a subdirectory is yielded only by a recursive scan, and an entry
\* without the extension is never yielded.
C18_ConsidersExactlyPlistEntries ==
    []ScanKeepsToPlistEntries /\ [][ListingTakesPlistEntries]_vars

\* a recursive scan that has yielded a.plist and sub/c.plist and not the
\* valid plist b.txt
C18_Witness ==
    /\ scan.mode = "walk"
    /\ scan.status = "done"
    /\ scan.yielded = {PathA, PathC}
    /\ fs[PathB] = File(ValidXml)

\* a flat scan done next to a valid sub/c.plist
C18_FlatWitness ==
    /\ scan.mode = "flat"
    /\ scan.status = "done"
    /\ scan.yielded = {PathA}
    /\ fs[PathC] = File(ValidXml)

\* the first next() of a scan whose target is not there
StartOnMissingTarget ==
    (scan.status = "created" /\ scan'.status # "created"
        /\ fs[scan.target].kind = "absent") =>
            /\ scan'.status = "raised"
            /\ scan'.exc = "FileNotFoundError"
            /\ scan'.yielded = {}

\* a raised scan that tried no candidate failed on its target and yielded
\* nothing; a scan that listed nothing ends without an error and without a
\* yield
NothingFromMissingOrEmpty ==
    /\ (scan.status = "raised" /\ scan.considered = <<>>) =>
           scan.exc = "FileNotFoundError" /\ scan.yielded = {}
    /\ (scan.status \in {"done", "raised"} /\ scan.listed = {}) =>
           /\ scan.yielded = {}
           /\ scan.status = "raised" => scan.exc = "FileNotFoundError"

\* the first next() of a scan whose target is a directory raises nothing
StartOnDirectory ==
    (scan.status = "created" /\ scan'.status # "created"
        /\ fs[scan.target].kind = "dir") => scan'.status = "running"

\* C19: a scan of a target that does not exist raises FileNotFoundError in
\* either mode and yields nothing; a scan of a directory with no '.plist'
\* entry is the empty sequence, without an error.
C19_MissingTargetRaisesEmptyDirYieldsNothing ==
    /\ []NothingFromMissingOrEmpty
    /\ [][StartOnMissingTarget /\ StartOnDirectory]_vars

\* a recursive scan that raised on its missing target
C19_Witness ==
    /\ scan.mode = "walk"
    /\ scan.status = "raised"
    /\ scan.exc = "FileNotFoundError"
    /\ scan.considered = <<>>
    /\ fs[scan.target].kind = "absent"

\* a scan of a directory holding only b.txt, done with nothing yielded
C19_EmptyWitness ==
    /\ scan.status = "done"
    /\ scan.listed = {}
    /\ scan.yielded = {}
    /\ fs[PathB] = File(ValidXml)
    /\ fs[scan.target].kind = "dir"

\* the file name with a final '.plist' taken off, if it has one
WithoutPlistExtension(n) ==
    IF HasPlistExtension(<<n>>) THEN SubSeq(n, 1, Len(n) - Len(PlistExt))
    ELSE n

\* C20: Plist.name is the file name with the extension '.plist' removed: for
\* a file named s + '.plist' it is exactly s, whatever s ends in, and a file
\* name without the extension is returned as it is.
C20_NameIsFileNameWithoutExtension ==
    ret.op = "name" =>
        ret.out = Ok([name |-> WithoutPlistExtension(BaseName(ret.args[1].fp))])

\* What name does give: the stem, when the stem (or the bare name) ends in
\* none of the characters '.', 'p', 'l', 'i', 's', 't'; otherwise a proper
\* prefix of it.
Name_StemUnlessItEndsInExtensionChar ==
    ret.op = "name" =>
        LET stem == WithoutPlistExtension(BaseName(ret.args[1].fp))
            got  == ret.out.val.name
        IN  /\ ret.out.st = "ok"
            /\ Len(got) <= Len(stem)
            /\ got = SubSeq(stem, 1, Len(got))
            /\ got = stem <=>
                   stem[Len(stem)] \notin {PlistExt[i] : i \in 1..Len(PlistExt)}

-----------------------------------------------------------------------------
(* Properties of xml, plist_version and ProgramPlist                       *)

\* the file an entity is on, as it is now
FileOf(self) == fs[self.fp]

IsBinaryPlistFile(f) == f.kind = "file" /\ BinaryDict(f.content)
IsXmlPlistFile(f) ==
    f.kind = "file" /\ ~BinaryDict(f.content) /\ XmlDict(f.content)

\* C21: over a file that decodes as binary, xml and plist_version are null;
\* over a file that decodes as XML, xml is the text of the file and
\* plist_version the 'version' attribute of the root element, null when the
\* root has none; over a deleted or invalid file both raise.
C21_XmlAndVersion ==
    /\ ret.op = "xml" =>
           LET f == FileOf(ret.args[1])
           IN  IF IsBinaryPlistFile(f) THEN ret.out = Ok([xml |-> None])
               ELSE IF IsXmlPlistFile(f)
               THEN ret.out = Ok([xml |-> [t |-> "text", of |-> f.content]])
               ELSE ret.out.st = "raise"
    /\ ret.op = "plist_version" =>
           LET f == FileOf(ret.args[1])
           IN  IF IsBinaryPlistFile(f)
               THEN ret.out = Ok([plist_version |-> None])
               ELSE IF IsXmlPlistFile(f)
               THEN ret.out = Ok([plist_version |->
                       IF "version" \in DOMAIN f.content
                       THEN None ELSE [t |-> "str", s |-> "1.0"]])
               ELSE ret.out.st = "raise"

\* plist_version was null over an XML plist whose root has no version
C21_Witness ==
    /\ ret.op = "plist_version"
    /\ IsXmlPlistFile(FileOf(ret.args[1]))
    /\ ret.out = Ok([plist_version |-> None])

\* xml raised over a file deleted since the entity was made
C21_DeletedWitness ==
    /\ ret.op = "xml"
    /\ ret.args[1] \in changed
    /\ FileOf(ret.args[1]) = Absent
    /\ ret.out = Raise("FileNotFoundError")

\* the flattened data of the valid plist file an entity is on
FlatOf(self) == json_normalized_plist_dict(DecodedRoot(self.fp))

OnValidPlist(self) ==
    FileOf(self).kind = "file" /\ ValidPlist(FileOf(self).content)

\* the program path as claimed: 'Program' when present, else the first
\* element of 'ProgramArguments', else null
ClaimedProgramPath(flat) ==
    LET program   == DictGet(flat, KeyProgram)
        arguments == DictGet(flat, KeyProgramArguments)
    IN  IF program # None /\ program.t = "str" THEN PurePath(program.s)
        ELSE IF program = None /\ arguments # None /\ arguments.t = "array"
                /\ arguments.es # <<>> /\ arguments.es[1].t = "str"
        THEN PurePath(arguments.es[1].s)
        ELSE None

\* C22: over every valid plist file program_path returns, never raising, the
\* path of 'Program' when present, otherwise of the first element of
\* 'ProgramArguments', otherwise null, also for an empty 'ProgramArguments';
\* program_name is the last component of that path, null when it is null.
C22_ProgramPathNeverRaises ==
    /\ (ret.op = "program_path" /\ OnValidPlist(ret.args[1])) =>
           ret.out = Ok([program_path |-> ClaimedProgramPath(FlatOf(ret.args[1]))])
    /\ (ret.op = "program_name" /\ OnValidPlist(ret.args[1])) =>
           LET path == ClaimedProgramPath(FlatOf(ret.args[1]))
           IN  ret.out = Ok([program_name |->
                   IF path = None THEN None
                   ELSE [t |-> "str", s |-> path.parts[Len(path.parts)]]])

\* the plists on which program_path does not return: no 'Program' and an
\* empty 'ProgramArguments' (IndexError), a 'Program' that is no text
\* (TypeError)
ProgramPathRaises(flat) ==
    LET program   == DictGet(flat, KeyProgram)
        arguments == DictGet(flat, KeyProgramArguments)
    IN  \/ program # None /\ program.t # "str"
        \/ program = None /\ arguments # None /\ arguments.t = "array"
               /\ arguments.es = <<>>

\* What program_path and program_name do give: the claimed path and name on
\* every valid plist but those two kinds, where they raise.
Program_PathUnlessEmptyArgumentsOrNoText ==
    (ret.op \in {"program_path", "program_name"} /\ OnValidPlist(ret.args[1])) =>
        IF ProgramPathRaises(FlatOf(ret.args[1]))
        THEN ret.out.st = "raise" /\ ret.out.exc \in {"IndexError", "TypeError"}
        ELSE LET path == ClaimedProgramPath(FlatOf(ret.args[1]))
             IN  IF ret.op = "program_path"
                 THEN ret.out = Ok([program_path |-> path])
                 ELSE ret.out = Ok([program_name |->
                          IF path = None THEN None
                          ELSE [t |-> "str", s |-> path.parts[Len(path.parts)]]])

\* the running processes of a table whose executable is the text of path
RunningAt(table, path) ==
    {proc \in table : ~proc.gone /\ proc.exe = PathStr(path)}

\* C23: process_instances and is_running are null exactly when program_path
\* is null; otherwise process_instances maps the process id of each running
\* process whose executable is exactly the program path to that process, and
\* is_running is true exactly when there is such a process.
C23_ProcessesOfProgramPath ==
    /\ ret.op = "process_instances" =>
           LET path == ProgramPlist_program_path(fs, ret.args[1])
           IN  /\ ret.out = Ok([process_instances |-> None])
                      <=> path = Ok([program_path |-> None])
               /\ (path.st = "ok" /\ path.val.program_path # None) =>
                      /\ ret.out.st = "ok"
                      /\ ret.out.val.process_instances.t = "MappingProxyType"
                      /\ LET m == ret.out.val.process_instances.m
                             running == RunningAt(ret.args[2], path.val.program_path)
                         IN  /\ DOMAIN m = {proc.pid : proc \in running}
                             /\ \A pid \in DOMAIN m :
                                    m[pid] \in running /\ m[pid].pid = pid
    /\ ret.op = "is_running" =>
           LET path == ProgramPlist_program_path(fs, ret.args[1])
           IN  /\ ret.out = Ok([is_running |-> None])
                      <=> path = Ok([program_path |-> None])
               /\ (path.st = "ok" /\ path.val.program_path # None) =>
                      ret.out = Ok([is_running |->
                          [t |-> "bool",
                           b |-> RunningAt(ret.args[2],
                                           path.val.program_path) # {}]])

\* What the two do give when program_path returns: the claim; when it raises,
\* process_instances raises the same, and is_running is null for a TypeError.
Processes_AsClaimedWhenPathReturns ==
    ret.op \in {"process_instances", "is_running"} =>
        LET path == ProgramPlist_program_path(fs, ret.args[1])
            running == RunningAt(ret.args[2], path.val.program_path)
        IN  IF path.st = "raise"
            THEN IF ret.op = "is_running" /\ path.exc = "TypeError"
                 THEN ret.out = Ok([is_running |-> None])
                 ELSE ret.out = path
            ELSE IF path.val.program_path = None
            THEN ret.out.st = "ok" /\
                 ret.out.val \in {[process_instances |-> None],
                                  [is_running |-> None]}
            ELSE IF ret.op = "is_running"
            THEN ret.out = Ok([is_running |-> [t |-> "bool", b |-> running # {}]])
            ELSE /\ ret.out.st = "ok"
                 /\ DOMAIN ret.out.val.process_instances.m
                        = {proc.pid : proc \in running}
                 /\ \A pid \in DOMAIN ret.out.val.process_instances.m :
                        ret.out.val.process_instances.m[pid] \in running

-----------------------------------------------------------------------------
(* Properties of the entity that keeps its data                            *)

\* the mapping the caller loaded from the file and gave to the constructor
GivenMapping(self) == LoadDetect(self.given.content).val

\* C24: an entity can be made from a mapping or from a byte buffer as well
\* as from a path or a stream; made from a mapping it stores the mapping as
\* it is: data returns that mapping, never null, and comparing it with
\* another entity returns a value.
C24_MappingStoredAsIs ==
    /\ (ret.op = "__init__" /\ ret.args[1].t \in {"dict", "bytes"}) =>
           ret.out.st = "ok"
    /\ (ret.op = "data" /\ ret.args[1].input.t = "dict") =>
           /\ ret.out.st = "ok"
           /\ ret.out.val.data # None
           /\ ret.out.val.data = GivenMapping(ret.args[1])
    /\ (ret.op = "__eq__" /\ ret.args[1].input.t = "dict") =>
           ret.out.st = "ok"

\* What the constructor does give: an object for every input but a str or a
\* stream that does not decode; data is kept only for a str and a stream, and
\* is null for a mapping, a byte buffer and a pathlib.Path, whose comparison
\* with anything raises AttributeError.
Utils_OnlyStrAndStreamKeepData ==
    /\ (ret.op = "__init__" /\ ret.args[1].t \notin {"str", "stream"}) =>
           ret.out.st = "ok" /\ ret.out.val.object.data = None
    /\ ret.op = "data" =>
           (ret.out.val.data = None
                <=> ret.args[1].input.t \notin {"str", "stream"})
    /\ ret.op = "__eq__" =>
           (ret.out = Raise("AttributeError")
                <=> ret.args[1].input.t \notin {"str", "stream"})

StreamBuilt(self) == self.input.t = "stream"

\* the flattened data of what the stream held when the entity was made
SnapshotOf(self) == json_normalized_plist(LoadDetect(self.given.content).val)

\* C25: an entity made from a stream keeps the flattened data decoded at
\* construction: whatever is done to the file afterwards, data returns that
\* snapshot and the comparison of two such entities is the comparison of
\* their snapshots.
C25_StreamSnapshotKept ==
    /\ \A self \in plists : StreamBuilt(self) => self.data = SnapshotOf(self)
    /\ (ret.op = "data" /\ StreamBuilt(ret.args[1])) =>
           ret.out = Ok([data |-> SnapshotOf(ret.args[1])])
    /\ (ret.op = "__eq__" /\ StreamBuilt(ret.args[1])
            /\ StreamBuilt(ret.args[2])) =>
           ret.out = Ok([eq |-> SnapshotOf(ret.args[1]) = SnapshotOf(ret.args[2])])

\* data was read from a stream-built entity whose file has since been
\* rewritten with another plist
C25_Witness ==
    /\ ret.op = "data"
    /\ StreamBuilt(ret.args[1])
    /\ ret.args[1].given = File([fmt |-> "xml", root |-> ExamplePlist])
    /\ fs[ret.args[1].input.p] = File([fmt |-> "xml", root |-> OtherPlist])
    /\ ret.out.st = "ok"

\* two stream-built entities compared equal after both files were removed
C25_DeletedWitness ==
    /\ ret.op = "__eq__"
    /\ StreamBuilt(ret.args[1])
    /\ StreamBuilt(ret.args[2])
    /\ ret.args[1] # ret.args[2]
    /\ \A p \in Paths : fs[p] = Absent
    /\ ret.out = Ok([eq |-> TRUE])

-----------------------------------------------------------------------------
(* Properties of calls raced by a writer                                   *)

DecodeDone == ret.op = "plist_dict_from_path" /\ "pc" \in DOMAIN ret /\ ret.pc = "done"

\* C26: the outcome of a decode is the outcome for one content the file held
\* during the call, the XML attempt parsing what the binary attempt parsed;
\* so a file that held a valid plist at every moment of the call is never
\* reported as InvalidFile.
C26_DecodeOfOneContent ==
    DecodeDone =>
        /\ \E f \in ret.held : ret.out = DecodeAttempts(f, f)
        /\ (\A f \in ret.held : f.kind = "file" /\ ValidPlist(f.content)) =>
               ret.out # Raise("InvalidFileException")

\* What a decode does give: the outcome for one content when nothing wrote the
\* file during the call; otherwise the binary attempt on the first content
\* and the XML attempt on the last.
Decode_OfOneContentWhenNotRewritten ==
    DecodeDone =>
        /\ Cardinality(ret.held) = 1 =>
               \A f \in ret.held : ret.out = DecodeAttempts(f, f)
        /\ \E f \in ret.held, g \in ret.held : ret.out = DecodeAttempts(f, g)

EqDone == ret.op = "__eq__" /\ "pc" \in DOMAIN ret /\ ret.pc = "done"

\* C28: an entity compared with itself, or with another entity on the same
\* path, is equal whenever the comparison returns a value, whatever is
\* written to the file while the comparison runs.
C28_EqReflexiveUnderRewrite ==
    (EqDone /\ ret.args[1].fp = ret.args[2].fp /\ ret.out.st = "ok") =>
        ret.out.val.eq

\* What the comparison does give: reflexive when nothing wrote the file
\* between its two reads.
Eq_ReflexiveWhenNotRewritten ==
    (EqDone /\ ret.args[1].fp = ret.args[2].fp /\ ret.out.st = "ok"
        /\ Cardinality(ret.held) = 1) =>
            ret.out.val.eq

-----------------------------------------------------------------------------
(* Properties of the flattened values, of hash and of equality             *)

\* the entry the flattened dict holds for a leaf path
FlatValueAt(flat, path) == flat[CHOOSE i \in EntriesAt(flat, path) : TRUE].v

\* the text has no decimal point
NoDecimalPoint(text) == \A i \in 1..Len(text) : text[i] # "."

\* C27: flattening keeps every leaf's value and type: an integer leaf is an
\* integer in the flattened dict, and its string has no decimal point, also
\* when every other leaf is a float.
C27_FlattenKeepsValueAndType ==
    PropertiesRead =>
        LET d    == DecodedRoot(ret.args[1].fp)
            flat == ret.out.val.properties
        IN  \A path \in LeafPaths(d) :
                /\ EntriesAt(flat, path) # {}
                /\ FlatValueAt(flat, path) = ValueAt(d.items, path)
                /\ ValueAt(d.items, path).t = "int" =>
                       NoDecimalPoint(PyStr(FlatValueAt(flat, path)))

\* the leaves are numbers, a float among them
IntsAmongReals(d) ==
    /\ \A path \in LeafPaths(d) : ValueAt(d.items, path).t \in {"int", "real"}
    /\ \E path \in LeafPaths(d) : ValueAt(d.items, path).t = "real"

\* What flattening does give, when no two leaf paths join to the same key:
\* every leaf's value and type, unless the leaves are all numbers with a float
\* among them; then an integer leaf n comes out as the float n.0.
Flatten_KeepsValuesUnlessIntsAmongReals ==
    (PropertiesRead /\ JoinInjective(DecodedRoot(ret.args[1].fp))) =>
        LET d    == DecodedRoot(ret.args[1].fp)
            flat == ret.out.val.properties
        IN  \A path \in LeafPaths(d) :
                LET v == ValueAt(d.items, path)
                IN  /\ EntriesAt(flat, path) # {}
                    /\ FlatValueAt(flat, path) =
                           IF IntsAmongReals(d) /\ v.t = "int"
                           THEN IntToReal(v.n) ELSE v

\* C29: the hash is consistent with equality: over unchanged files, entities
\* that compare equal have equal hashes, and the hash of an entity is the
\* same value at every call.
C29_EqualEntitiesHashEqual ==
    /\ (EqRead /\ ret.out.val.eq) =>
           /\ Plist_hash(fs, ret.args[1]).st = "ok"
           /\ Plist_hash(fs, ret.args[1]) = Plist_hash(fs, ret.args[2])
    /\ HashRead =>
           /\ ret.out = Plist_hash(fs, ret.args[1])
           /\ ret.out.val = DigestOfFile(ret.args[1].fp)

\* two entities on two paths, whose dicts differ by insertion order, compared
\* equal
C29_Witness ==
    /\ EqRead
    /\ ret.out.val.eq
    /\ ret.args[1].fp # ret.args[2].fp
    /\ DecodedRoot(ret.args[1].fp) # DecodedRoot(ret.args[2].fp)

\* the hash of an entity was read
C29_HashWitness ==
    /\ HashRead
    /\ DecodedRoot(ret.args[1].fp) = ExamplePlistReordered

\* the flattened dict of the plist now in file p
FlatOfFile(p) == json_normalized_plist_dict(DecodedRoot(p))

\* C30: entities whose flattened key sets differ are never equal, also when
\* their sorted stringified values, and so their hashes, are the same.
C30_DifferentKeysNeverEqual ==
    (EqRead /\ KeySet(FlatOfFile(ret.args[1].fp))
                  # KeySet(FlatOfFile(ret.args[2].fp))) =>
        ~ret.out.val.eq

\* two entities with different keys, the same sorted stringified values and
\* the same hash compared unequal
C30_Witness ==
    /\ EqRead
    /\ ~ret.out.val.eq
    /\ KeySet(FlatOfFile(ret.args[1].fp)) # KeySet(FlatOfFile(ret.args[2].fp))
    /\ SortedValuesOfFile(ret.args[1].fp) = SortedValuesOfFile(ret.args[2].fp)
    /\ Plist_hash(fs, ret.args[1]) = Plist_hash(fs, ret.args[2])

=============================================================================
